---- MODULE Spec2Model ----
(***************************************************************************)
(* Model of the serial framing layer of ecu_pts: CircularBuffer,           *)
(* ThreadSafeQueue, SerialTransport (Send, ReadLoop, WriteLoop,            *)
(* ProcessBuffer, CalculateCrc16, Start, Stop) and the command encoders of *)
(* ECUConnector that feed it.                                              *)
(***************************************************************************)
EXTENDS Integers, Sequences, FiniteSets, TLC

VARIABLES
    running,        \* SerialTransport::running_ (std::atomic<bool>)
    rpc,            \* position of the read thread (ReadLoop)
    wpc,            \* position of the write thread (WriteLoop)
    spc,            \* position of the caller inside Start()/Stop()
    input_buffer,   \* SerialTransport::input_buffer_ (CircularBuffer)
    input_queue,    \* SerialTransport::input_queue_
    output_queue,   \* SerialTransport::output_queue_
    wframe,         \* WriteLoop local: frame
    written,        \* WriteLoop local: written
    rx,             \* bytes the device will still hand to ::read
    tx,             \* bytes the device accepted from ::write
    dev,            \* device state: "ok" or "gone" (writes fail for good)
    sent,           \* history: frames Send enqueued and handed to the TX log
                    \* callback, in enqueue order
    validated,      \* history: payloads ProcessBuffer pushed, in order
    delivered,      \* history: payloads successful Read() calls returned
    lastStep,       \* history: branch taken by the last ProcessBuffer iteration
    pops,           \* history: bytes each input_buffer_.Pop of ProcessBuffer removed
    scen,           \* the input of the run (payload, command or stream scenario)
    phase,          \* position of the sequential driver of the codec runs
    cpc,            \* position of each thread that is inside Start()
    spawned,        \* number of read / write threads Start() has created
    aborted,        \* the process was terminated (std::terminate, crash)
    queue_,         \* ThreadSafeQueue::queue_ of the queue under test
    pidx,           \* number of items each producer has pushed
    cstate,         \* position of each consumer ("out", "waiting", "woken")
    res,            \* what each consumer's last call returned, and its value
    popped,         \* history: the items popped from queue_, in pop order
    wcalls,         \* history: number of WaitAndPop calls begun
    obj,            \* life of the SerialTransport object being constructed
    fd,             \* the descriptor fd_: "closed", "open", "configured"
    err,            \* what() of the exception the constructor threw, or ""
    lastReq,        \* ECUConnector::lastRequestedEncoderMotor_
    events,         \* history: decode, SpeedSet and ConnectionChanged signals
                    \* the ECUConnector emitted, in order
    currentSpeeds,  \* ECUConnector::currentSpeeds_
    panel           \* the ControlPanel: check box, sliders, speeds, timer

vars == <<running, rpc, wpc, spc, input_buffer, input_queue, output_queue,
          wframe, written, rx, tx, dev, sent, validated, delivered, lastStep,
          pops, scen, phase, cpc, spawned, aborted, queue_, pidx, cstate, res,
          popped, wcalls, obj, fd, err, lastReq, events,
          currentSpeeds, panel>>

threadVars == <<running, rpc, wpc, spc>>
rxVars == <<input_buffer, input_queue, rx, validated, delivered, lastStep, pops>>
txVars == <<output_queue, wframe, written, tx, sent>>
startVars == <<cpc, spawned, aborted>>
queueVars == <<queue_, pidx, cstate, res, popped, wcalls>>
ctorVars == <<obj, fd, err>>
connVars == <<lastReq, events>>
panelVars == <<currentSpeeds, panel>>
envVars == <<dev, scen, phase, startVars, queueVars, ctorVars, connVars,
            panelVars>>

(***************************************************************************)
(* Bounds of the model.                                                    *)
(***************************************************************************)
\* number of distinct byte values payloads are drawn from
NumByteVals == 3
\* longest short payload enumerated exhaustively
MaxPayLen == 2
\* long payload lengths enumerated around the length-byte limit
LongLo == 250
LongHi == 255

ByteTable == <<170, 255, 16, 0, 3, 1, 2, 85>>
ByteVals == {ByteTable[i] : i \in 1..NumByteVals}

SeqsUpTo(S, n) == UNION {[1..k -> S] : k \in 1..n}
Payloads == SeqsUpTo(ByteVals, MaxPayLen)
\* a long payload of n bytes with varying content derived from a seed
Pattern(n, s) == [i \in 1..n |-> (s + 7 * i) % 256]
LongPayloads == {Pattern(n, s) : n \in LongLo..LongHi, s \in ByteVals}

Min(a, b) == IF a < b THEN a ELSE b

(***************************************************************************)
(* Fixed-width integer helpers.                                            *)
(***************************************************************************)
RECURSIVE BitXor(_, _)
BitXor(a, b) ==
    IF a = 0 THEN b
    ELSE IF b = 0 THEN a
    ELSE (((a % 2) + (b % 2)) % 2) + 2 * BitXor(a \div 2, b \div 2)

RECURSIVE BitAnd(_, _)
BitAnd(a, b) ==
    IF a = 0 \/ b = 0 THEN 0
    ELSE ((a % 2) * (b % 2)) + 2 * BitAnd(a \div 2, b \div 2)

\* static_cast<uint8_t>(x)
U8(x) == x % 256

\* the values of a uint16_t
IsU16(x) == x >= 0 /\ x <= 65535

(***************************************************************************)
(* SerialTransport::CalculateCrc16                                         *)
(***************************************************************************)
CrcInit == 65535
CrcPoly == 40961
StartByte == 170

\* the inner loop for (int i = 8; i != 0; i--): shift right, and XOR the
\* polynomial in when the bit shifted out was set
\* (c ranges over the one value of crc, so that the register is computed
\* once per shift)
RECURSIVE CrcBits(_, _)
CrcBits(crc, i) ==
    IF i = 0 THEN crc
    ELSE CHOOSE r \in
            {IF BitAnd(c, 1) # 0 THEN CrcBits(BitXor(c \div 2, CrcPoly), i - 1)
             ELSE CrcBits(c \div 2, i - 1) : c \in {crc}} : TRUE

\* crc ^= data[pos]; then the eight shifts
\* mutant: only the low seven bits of each byte enter the register
CrcByteLow7(crc, b) == CrcBits(BitXor(crc, b % 128), 8)

CrcByte(crc, b) == CrcBits(BitXor(crc, b), 8)

\* for (pos = from; pos < to; pos++) { crc ^= data[pos]; ...shifts... }
\* the positions are visited in order; the range is split in halves only to
\* keep the evaluation depth logarithmic in the length
RECURSIVE CrcLoop(_, _, _, _)
CrcLoop(data, from, to, crc) ==
    IF from >= to \/ ~IsU16(crc) THEN crc
    ELSE IF to = from + 1 THEN CrcByte(crc, data[from + 1])
    ELSE LET mid == (from + to) \div 2
         IN  CHOOSE r \in {CrcLoop(data, mid, to, left) :
                            left \in {CrcLoop(data, from, mid, crc)}} : TRUE

\* data is the byte sequence starting at the pointer; len the byte count
CalculateCrc16(data, len) == CrcLoop(data, 0, len, CrcInit)

(***************************************************************************)
(* CircularBuffer.  buffer_ is kept as a map from the written indices to   *)
(* their bytes; a cell never written reads 0 (vector::resize).             *)
(***************************************************************************)
InputBufferSize == 65536

\* mutant: the storage is a sixteenth of the size asked for
NewCircularBufferShort(size) ==
    [buffer_ |-> [i \in {} |-> 0], head_ |-> 0, tail_ |-> 0, count_ |-> 0,
     size_ |-> size \div 16, mask_ |-> (size \div 16) - 1]

NewCircularBuffer(size) ==
    [buffer_ |-> [i \in {} |-> 0], head_ |-> 0, tail_ |-> 0, count_ |-> 0,
     size_ |-> size, mask_ |-> size - 1]

Cell(cb, i) == IF i \in DOMAIN cb.buffer_ THEN cb.buffer_[i] ELSE 0

\* memcpy(&buffer_[at], data + from, n); data is a 1-based sequence
MemWrite(mem, at, data, from, n) ==
    [i \in (DOMAIN mem) \cup {at + k : k \in 0..(n - 1)} |->
        IF i >= at /\ i < at + n THEN data[from + (i - at) + 1]
        ELSE mem[i]]

CBPush(cb, data, len) ==
    LET space_at_end == cb.size_ - cb.head_
        first_chunk == IF len < space_at_end THEN len ELSE space_at_end
        m1 == MemWrite(cb.buffer_, cb.head_, data, 0, first_chunk)
        m2 == IF len > first_chunk
              THEN MemWrite(m1, 0, data, first_chunk, len - first_chunk)
              ELSE m1
        head2 == BitAnd(cb.head_ + len, cb.mask_)
    IN  IF cb.count_ + len > cb.size_
        THEN [cb EXCEPT !.buffer_ = m2, !.head_ = head2,
                        !.tail_ = BitAnd(cb.tail_ + ((cb.count_ + len) - cb.size_),
                                         cb.mask_),
                        !.count_ = cb.size_]
        ELSE [cb EXCEPT !.buffer_ = m2, !.head_ = head2,
                        !.count_ = cb.count_ + len]

\* mutant: Pop does not clamp n to the occupancy
CBPopUnclamped(cb, n) ==
    [cb EXCEPT !.tail_ = BitAnd(cb.tail_ + n, cb.mask_), !.count_ = cb.count_ - n]

CBPop(cb, n) ==
    LET k == IF n > cb.count_ THEN cb.count_ ELSE n
    IN  [cb EXCEPT !.tail_ = BitAnd(cb.tail_ + k, cb.mask_),
                   !.count_ = cb.count_ - k]

CBPeek(cb, offset) == Cell(cb, BitAnd(cb.tail_ + offset, cb.mask_))

CBSize(cb) == cb.count_

\* the retained bytes, oldest first
CBContents(cb) == [i \in 1..cb.count_ |-> CBPeek(cb, i - 1)]

(***************************************************************************)
(* ThreadSafeQueue: every method runs under the queue's mutex.             *)
(***************************************************************************)
\* mutant: Push puts the item in front of the queued ones
QPushFront(q, value) == <<value>> \o q

QPush(q, value) == Append(q, value)
QPopOk(q) == q # <<>>

\* mutant: Pop hands out the newest item
QPopNewest(q) == q[Len(q)]

QPopValue(q) == Head(q)
\* mutant: Pop copies the front item and leaves it queued
QPopKeep(q) == q

QPopRest(q) == Tail(q)

(***************************************************************************)
(* SerialTransport::Send (application transport)                           *)
(***************************************************************************)
MaxLenField == 255
CrcSize == 2
LenOverhead == 3
MinLenByte == 3

\* mutant: Send lets an empty payload through
SendRejectsOversize(data) == Len(data) + CrcSize > MaxLenField

\* if (data.empty()) return;  if (data.size() + 2 > 255) return;
SendRejects(data) == Len(data) = 0 \/ Len(data) + CrcSize > MaxLenField

\* mutant: the length byte leaves out its own byte (payload + CRC only)
LenByteNoSelf(n) == U8(n + CrcSize)

\* uint8_t len_byte = static_cast<uint8_t>(data.size() + 3)
LenByte(n) == U8(n + LenOverhead)

\* mutant: the CRC is appended high byte first
CrcTailHighFirst(crc) == <<BitAnd(crc \div 256, 255), BitAnd(crc, 255)>>

\* frame.push_back(crc & 0xFF); frame.push_back((crc >> 8) & 0xFF)
CrcTail(crc) == <<BitAnd(crc, 255), BitAnd(crc \div 256, 255)>>

SendFrame(data) ==
    LET payload_with_len == <<LenByte(Len(data))>> \o data
        crc == CalculateCrc16(payload_with_len, Len(payload_with_len))
    IN  <<StartByte>> \o payload_with_len \o CrcTail(crc)

\* the outbound queue after Send(data)
Send(q, data) == IF SendRejects(data) THEN q ELSE QPush(q, SendFrame(data))

(***************************************************************************)
(* SerialTransport::ProcessBuffer, one iteration of its while loop.        *)
(* kind: "exit" (fewer than 2 bytes), "nosync", "badlen", "partial"        *)
(* (break), "crcfail", "accept".                                           *)
(***************************************************************************)
\* uint16_t received_crc = frame[total_len - 2] | (frame[total_len - 1] << 8)
ReceivedCrc(frame, total_len) == frame[total_len - 1] + 256 * frame[total_len]

\* mutant: the CRC range under-counts by the length byte's own size
CalculatedCrcShort(frame, len_byte) == CalculateCrc16(Tail(frame), len_byte - 3)

\* CalculateCrc16(&frame[1], len_byte - 2)
CalculatedCrc(frame, len_byte) == CalculateCrc16(Tail(frame), len_byte - CrcSize)

\* mutant: the payload is taken from the length byte on
ExtractFromLength(frame, len_byte) == SubSeq(frame, 2, Len(frame) - 2)

\* payload.assign(frame.begin() + 2, frame.end() - 2) when len_byte > 3
ExtractPayload(frame, len_byte) ==
    IF len_byte > MinLenByte THEN SubSeq(frame, 3, Len(frame) - 2) ELSE <<>>

\* mutant: a byte that is not the start marker takes its successor with it
NoSyncDropBoth == 1 + 1

\* input_buffer_.Pop(1) when the oldest byte is not the start marker
NoSyncDrop == 1

\* mutant: a bad length is met again and again, nothing being dropped
BadLenDropNone == 1 - 1

\* mutant: a bad length drops the marker and the length byte together
BadLenDropTwo == 1 + 1

\* input_buffer_.Pop(1) when the length byte is below 3
BadLenDrop == 1

\* mutant: a CRC mismatch drops the whole candidate
CrcFailDropFrame(total_len) == total_len

\* input_buffer_.Pop(1) on a CRC mismatch
CrcFailDrop(total_len) == 1

\* mutant: a partial candidate is treated as garbage and loses its marker
OnPartialDiscard(cb) == [kind |-> "nosync", cb |-> CBPop(cb, 1), push |-> <<>>]

\* if (input_buffer_.Size() < total_len) break;
OnPartial(cb) == [kind |-> "partial", cb |-> cb, push |-> <<>>]

ProcessBufferStep(cb) ==
    IF ~(CBSize(cb) >= 2) THEN [kind |-> "exit", cb |-> cb, push |-> <<>>]
    ELSE IF CBPeek(cb, 0) # StartByte
    THEN [kind |-> "nosync", cb |-> CBPop(cb, NoSyncDrop), push |-> <<>>]
    ELSE LET len_byte == CBPeek(cb, 1)
             total_len == 1 + len_byte
         IN  IF len_byte < MinLenByte
             THEN [kind |-> "badlen", cb |-> CBPop(cb, BadLenDrop), push |-> <<>>]
             ELSE IF CBSize(cb) < total_len
             THEN OnPartial(cb)
             ELSE LET frame == [i \in 1..total_len |-> CBPeek(cb, i - 1)]
                  IN  IF ReceivedCrc(frame, total_len) = CalculatedCrc(frame, len_byte)
                      THEN [kind |-> "accept", cb |-> CBPop(cb, total_len),
                            push |-> <<ExtractPayload(frame, len_byte)>>]
                      ELSE [kind |-> "crcfail",
                            cb |-> CBPop(cb, CrcFailDrop(total_len)),
                            push |-> <<>>]

\* mutant: the pass ends after the first discard (an if in place of the while)
LoopsAfterAccept(kind) == kind = "accept"

\* whether the loop goes round again after an iteration of this kind
LoopsAgain(kind) == kind \in {"nosync", "badlen", "crcfail", "accept"}

\* the state change of one iteration (input_queue_.Push under its mutex)
ProcessBufferApply ==
    LET r == ProcessBufferStep(input_buffer)
    IN  /\ input_buffer' = r.cb
        /\ input_queue' = IF r.push # <<>> THEN QPush(input_queue, r.push[1])
                           ELSE input_queue
        /\ validated' = validated \o r.push
        /\ lastStep' = r.kind
        /\ pops' = IF LoopsAgain(r.kind)
                   THEN Append(pops, CBSize(input_buffer) - CBSize(r.cb))
                   ELSE pops

(***************************************************************************)
(* ECUConnector::SetAllMotorsSpeed: the payload handed to Send.            *)
(***************************************************************************)
\* the four bytes (v >> 24) & 0xFF, (v >> 16) & 0xFF, (v >> 8) & 0xFF,
\* v & 0xFF of an int32_t (>> of a negative value is arithmetic: floor)
BigEndian32(v) ==
    <<(v \div 16777216) % 256, (v \div 65536) % 256, (v \div 256) % 256, v % 256>>

\* mutant: the speed goes on the wire without the factor 100
SpeedValRaw(speed) == speed

\* int32_t speedVal = speed * 100 (products inside the int32 range)
SpeedVal(speed) == speed * 100

RECURSIVE SpeedBytes(_)
SpeedBytes(speeds) ==
    IF speeds = <<>> THEN <<>>
    ELSE BigEndian32(SpeedVal(Head(speeds))) \o SpeedBytes(Tail(speeds))

SetAllMotorsSpeedPayload(speeds) == <<3>> \o SpeedBytes(speeds)

\* the data vector SetMotorSpeed builds
SetMotorSpeedPayload(motorId, speed) ==
    <<2, U8(motorId)>> \o BigEndian32(SpeedVal(speed))

\* the driver version GetApiVersion puts on the wire
DriverVersion == 1

\* the payload GetApiVersion hands to Send
GetApiVersionPayload == <<1, DriverVersion>>

\* the payload GetEncoder hands to Send
GetEncoderPayload(motorId) == <<4, U8(motorId)>>

\* the payloads GetAllEncoders and GetImu hand to Send
GetAllEncodersPayload == <<5>>
GetImuPayload == <<6>>

(***************************************************************************)
(* The ECUConnector command methods.  A handler may call several of them   *)
(* in a row, so each is a function from the connector state before the     *)
(* call to the state after it: c.speeds is currentSpeeds_, c.last is       *)
(* lastRequestedEncoderMotor_, c.q the transport's output queue, c.sent    *)
(* the frames enqueued so far and c.ev the signals emitted so far; up      *)
(* tells whether IsConnected() holds.                                      *)
(***************************************************************************)
\* ECUConnector::IsConnected: a transport exists and its descriptor is open
ConnIsConnected == obj = "alive" /\ fd # "closed"

\* the connector state the commands start from
Conn ==
    [speeds |-> currentSpeeds, last |-> lastReq, q |-> output_queue,
     sent |-> sent, ev |-> events]

\* transport_->Send(data)
ConnSend(c, data) ==
    [c EXCEPT !.q = Send(@, data),
              !.sent = IF SendRejects(data) THEN @ ELSE Append(@, SendFrame(data))]

\* emit SpeedSet(currentSpeeds_)
EmitSpeedSet(c) ==
    [c EXCEPT !.ev = Append(@, [sig |-> "SpeedSet", speeds |-> c.speeds])]

SetMotorSpeed(c, up, motorId, speed) ==
    IF ~up \/ motorId < 0 \/ motorId > 3 THEN c
    ELSE ConnSend(EmitSpeedSet([c EXCEPT !.speeds[motorId + 1] = speed]),
                  SetMotorSpeedPayload(motorId, speed))

SetAllMotorsSpeed(c, up, speeds) ==
    IF ~up \/ Len(speeds) # 4 THEN c
    ELSE ConnSend(EmitSpeedSet([c EXCEPT !.speeds = speeds]),
                  SetAllMotorsSpeedPayload(speeds))

GetAllEncoders(c, up) == IF ~up THEN c ELSE ConnSend(c, GetAllEncodersPayload)

GetEncoder(c, up, motorId) ==
    IF ~up \/ motorId < 0 \/ motorId > 3 THEN c
    ELSE ConnSend([c EXCEPT !.last = motorId], GetEncoderPayload(motorId))

GetApiVersion(c, up) == IF ~up THEN c ELSE ConnSend(c, GetApiVersionPayload)

GetImu(c, up) == IF ~up THEN c ELSE ConnSend(c, GetImuPayload)

\* the connector state a handler leaves behind
ConnBecomes(c) ==
    /\ currentSpeeds' = c.speeds
    /\ lastReq' = c.last
    /\ output_queue' = c.q
    /\ sent' = c.sent
    /\ events' = c.ev

(***************************************************************************)
(* State after construction of a SerialTransport (threads not started).    *)
(***************************************************************************)
\* bound: threads that may call Start() at the same time
NumCallers == 3

Callers == 1..NumCallers

\* bounds of the queue runs: producer and consumer threads, and the number
\* of items each producer pushes
NumProducers == 2
NumConsumers == 2
MaxPush == 2

Producers == 1..NumProducers
Consumers == 1..NumConsumers

\* maxRpmSpin_->setValue(200)
MaxRpmDefault == 200

\* a ControlPanel after its constructor: "All Same" checked, every slider at
\* 0, currentSpeeds_(4, 0), updateTimer_ not started
NewControlPanel ==
    [allSame |-> TRUE, allSlider |-> 0, sliders |-> <<0, 0, 0, 0>>,
     speeds |-> <<0, 0, 0, 0>>, timer |-> FALSE, maxRpm |-> MaxRpmDefault]

\* a new ECUConnector: no encoder request outstanding, nothing emitted
ConnectorInit ==
    /\ lastReq = 0 - 1
    /\ events = <<>>
    /\ currentSpeeds = <<0, 0, 0, 0>>
    /\ panel = NewControlPanel

\* a default-constructed ThreadSafeQueue nobody has called yet
QueueInit ==
    /\ ConnectorInit
    /\ queue_ = <<>>
    /\ pidx = [p \in Producers |-> 0]
    /\ cstate = [c \in Consumers |-> "out"]
    /\ res = [c \in Consumers |-> [ret |-> "none", value |-> <<>>]]
    /\ popped = <<>>
    /\ wcalls = 0

\* the constructor has returned: the device is open and configured
CtorDone ==
    /\ obj = "alive"
    /\ fd = "configured"
    /\ err = ""

\* no thread is inside Start(), no thread was created
StartInit ==
    /\ QueueInit
    /\ cpc = [c \in Callers |-> "out"]
    /\ spawned = [read |-> 0, write |-> 0]
    /\ aborted = FALSE

TransportInit ==
    /\ StartInit
    /\ CtorDone
    /\ running = FALSE
    /\ rpc = "none"
    /\ wpc = "none"
    /\ spc = "idle"
    /\ input_buffer = NewCircularBuffer(InputBufferSize)
    /\ input_queue = <<>>
    /\ output_queue = <<>>
    /\ wframe = <<>>
    /\ written = 0
    /\ rx = <<>>
    /\ tx = <<>>
    /\ dev = "ok"
    /\ sent = <<>>
    /\ validated = <<>>
    /\ delivered = <<>>
    /\ lastStep = "none"
    /\ pops = <<>>

(***************************************************************************)
(* Codec runs: one Send (raw payload, or through SetAllMotorsSpeed), then  *)
(* the enqueued frame is pushed into the empty ring buffer and             *)
(* ProcessBuffer runs to its end.                                          *)
(***************************************************************************)
SpeedVals == {0 - 1, 0, 1}

CodecInputs ==
    {[op |-> "raw", p |-> p] : p \in Payloads \cup LongPayloads \cup {<<>>}}
    \cup {[op |-> "setall", speeds |-> v] : v \in [1..4 -> SpeedVals]}

CodecInit ==
    /\ TransportInit
    /\ scen \in CodecInputs
    /\ phase = "call"

\* transport_->Send(data) called with the raw payload
CodecSend ==
    /\ phase = "call"
    /\ scen.op = "raw"
    /\ output_queue' = Send(output_queue, scen.p)
    /\ sent' = IF SendRejects(scen.p) THEN sent ELSE Append(sent, SendFrame(scen.p))
    /\ phase' = "sent"
    /\ UNCHANGED <<threadVars, rxVars, wframe, written, tx, dev, scen,
                   startVars, queueVars, ctorVars, connVars, panelVars>>

\* ECUConnector::SetAllMotorsSpeed(speeds) on a connected connector
CodecSetAll ==
    /\ phase = "call"
    /\ scen.op = "setall"
    /\ ConnBecomes(SetAllMotorsSpeed(Conn, ConnIsConnected, scen.speeds))
    /\ phase' = "sent"
    /\ UNCHANGED <<threadVars, rxVars, wframe, written, tx, dev, scen,
                   startVars, queueVars, ctorVars, panel>>

\* the enqueued frame is taken off the queue and pushed into the ring buffer
CodecFeed ==
    /\ phase = "sent"
    /\ QPopOk(output_queue)
    /\ LET frame == QPopValue(output_queue)
       IN  input_buffer' = CBPush(input_buffer, frame, Len(frame))
    /\ output_queue' = QPopRest(output_queue)
    /\ phase' = "process"
    /\ UNCHANGED <<threadVars, input_queue, rx, validated, delivered, lastStep,
                   pops, wframe, written, tx, sent, dev, scen,
                   startVars, queueVars, ctorVars, connVars, panelVars>>

\* Send declined: nothing to feed
CodecDeclined ==
    /\ phase = "sent"
    /\ ~QPopOk(output_queue)
    /\ phase' = "done"
    /\ UNCHANGED <<threadVars, rxVars, txVars, dev, scen,
                   startVars, queueVars, ctorVars, connVars, panelVars>>

\* one iteration of ProcessBuffer
CodecProcess ==
    /\ phase = "process"
    /\ ProcessBufferApply
    /\ phase' = IF LoopsAgain(ProcessBufferStep(input_buffer).kind)
                THEN "process" ELSE "done"
    /\ UNCHANGED <<threadVars, rx, delivered, txVars, dev, scen,
                   startVars, queueVars, ctorVars, connVars, panelVars>>

CodecNext ==
    \/ CodecSend
    \/ CodecSetAll
    \/ CodecFeed
    \/ CodecDeclined
    \/ CodecProcess

SpecCodec == CodecInit /\ [][CodecNext]_vars

(***************************************************************************)
(* Reference definition of CRC16-Modbus, bit-serial: the register starts   *)
(* at 0xFFFF; message bits enter least significant first; when the bit     *)
(* shifted out differs from the message bit the reflected polynomial       *)
(* 0xA001 (bits 15, 13 and 0) is added.                                    *)
(***************************************************************************)
Pow2(k) == IF k = 0 THEN 1 ELSE IF k = 13 THEN 8192 ELSE 32768
FlipBit(x, k) == IF (x \div Pow2(k)) % 2 = 1 THEN x - Pow2(k) ELSE x + Pow2(k)

AddPoly(x) == FlipBit(FlipBit(FlipBit(x, 15), 13), 0)

RECURSIVE ModbusBits(_, _, _)
ModbusBits(reg, b, n) ==
    IF n = 0 THEN reg
    ELSE CHOOSE r \in
            {IF (x % 2) # (b % 2) THEN ModbusBits(AddPoly(x \div 2), b \div 2, n - 1)
             ELSE ModbusBits(x \div 2, b \div 2, n - 1) : x \in {reg}} : TRUE

RECURSIVE ModbusFold(_, _, _, _)
ModbusFold(reg, bytes, lo, hi) ==
    IF lo > hi \/ reg < 0 THEN reg
    ELSE IF lo = hi THEN ModbusBits(reg, bytes[lo], 8)
    ELSE LET mid == (lo + hi) \div 2
         IN  CHOOSE r \in {ModbusFold(left, bytes, mid + 1, hi) :
                            left \in {ModbusFold(reg, bytes, lo, mid)}} : TRUE

ModbusCrc(bytes) == ModbusFold(65535, bytes, 1, Len(bytes))

\* the frame the wire format prescribes for payload p
WireFrame(p) ==
    LET L == 1 + Len(p) + 2
        crc == ModbusCrc(<<L>> \o p)
    IN  <<170, L>> \o p \o <<crc % 256, crc \div 256>>

\* payload lengths the claims quantify over: 1 <= len(p) <= 252
Framable(p) == Len(p) >= 1 /\ Len(p) <= 252

(***************************************************************************)
(* Claims about Send and the round trip (checked under SpecCodec).         *)
(***************************************************************************)

\* C1: for every payload p with 1 <= len(p) <= 252, pushing the frame that
\* Send(p) enqueued into the empty ring buffer and running ProcessBuffer
\* yields exactly one inbound payload, equal to p, and an empty ring buffer.
C1_RoundTrip ==
    (phase = "done" /\ scen.op = "raw" /\ Framable(scen.p))
        => /\ input_queue = <<scen.p>>
           /\ validated = <<scen.p>>
           /\ CBSize(input_buffer) = 0

C1_Witness ==
    /\ phase = "done"
    /\ scen.op = "raw"
    /\ Len(scen.p) = 252
    /\ input_queue = <<scen.p>>
    /\ lastStep = "exit"

\* C2 (as claimed): Send(p) enqueues nothing whenever len(p) + 3 > 255, and
\* the length byte of an enqueued frame never wrapped modulo 256.
C2_OversizeDeclined ==
    (phase = "sent" /\ scen.op = "raw")
        => /\ (Len(scen.p) + 3 > 255 => output_queue = <<>>)
           /\ \A i \in 1..Len(output_queue) :
                 output_queue[i][2] = Len(output_queue[i]) - 1

\* C3 (as claimed): framing the 17-byte payload of
\* set_all_motors_speed([0,0,0,0]) yields a 21-byte frame whose length byte
\* is 19.
C3_LengthByte19 ==
    (phase = "sent" /\ scen.op = "setall" /\ scen.speeds = <<0, 0, 0, 0>>)
        => /\ Len(SetAllMotorsSpeedPayload(scen.speeds)) = 17
           /\ Len(output_queue) = 1
           /\ Len(output_queue[1]) = 21
           /\ output_queue[1][2] = 19

\* C3 (amended): framing the 17-byte payload of
\* set_all_motors_speed([0,0,0,0]) yields a 21-byte frame whose length byte
\* is 20 (1 for itself + 17 payload bytes + 2 CRC bytes).
C3_LengthByte20 ==
    (phase = "sent" /\ scen.op = "setall" /\ scen.speeds = <<0, 0, 0, 0>>)
        => /\ Len(SetAllMotorsSpeedPayload(scen.speeds)) = 17
           /\ Len(output_queue) = 1
           /\ Len(output_queue[1]) = 21
           /\ output_queue[1][2] = 20

C3_Witness ==
    /\ phase = "sent"
    /\ scen.op = "setall"
    /\ scen.speeds = <<0, 0, 0, 0>>
    /\ output_queue = <<sent[1]>>
    /\ SubSeq(output_queue[1], 3, 19) = <<3, 0, 0, 0, 0, 0, 0, 0, 0, 0, 0, 0, 0, 0, 0, 0, 0>>

\* C4: for every payload p with 1 <= len(p) <= 252, Send(p) enqueues exactly
\* one frame [0xAA, L, p..., crc_lo, crc_hi] with L = 1 + len(p) + 2 and crc
\* the CRC16-Modbus of [L] ++ p, low byte first.
C4_FrameLayout ==
    (phase = "sent" /\ scen.op = "raw" /\ Framable(scen.p))
        => output_queue = <<WireFrame(scen.p)>>

C4_Witness ==
    /\ phase = "sent"
    /\ scen.op = "raw"
    /\ Len(scen.p) = 252
    /\ Len(output_queue) = 1
    /\ output_queue[1][2] = 255

(***************************************************************************)
(* SerialTransport::Start / Stop, called from the one thread that owns the *)
(* transport (the GUI thread, or main() of the tool).                      *)
(***************************************************************************)
\* if (running_) return; running_ = true; the two std::thread are created
Start ==
    /\ obj = "alive"
    /\ spc = "idle"
    /\ ~running
    /\ running' = TRUE
    /\ rpc' = "test"
    /\ wpc' = "test"
    /\ UNCHANGED <<spc, rxVars, txVars, envVars>>

(***************************************************************************)
(* SerialTransport::ReadLoop, one action per step of the read thread.      *)
(***************************************************************************)
ReadBufSize == 4096

\* while (running_)
R_Test ==
    /\ rpc = "test"
    /\ rpc' = IF running THEN "read" ELSE "exited"
    /\ UNCHANGED <<running, wpc, spc, rxVars, txVars, envVars>>

\* n = ::read(fd_, tmp, sizeof(tmp)) with n > 0; input_buffer_.Push(tmp, n)
R_ReadBytes ==
    /\ rpc = "read"
    /\ dev = "ok"
    /\ \E n \in 1..Min(Len(rx), ReadBufSize) :
          /\ input_buffer' = CBPush(input_buffer, SubSeq(rx, 1, n), n)
          /\ rx' = SubSeq(rx, n + 1, Len(rx))
    /\ rpc' = "process"
    /\ UNCHANGED <<running, wpc, spc, input_queue, validated, delivered,
                   lastStep, pops, txVars, envVars>>

\* ::read timed out (VTIME) or failed: n <= 0
R_ReadNone ==
    /\ rpc = "read"
    /\ rpc' = "sleep"
    /\ UNCHANGED <<running, wpc, spc, rxVars, txVars, envVars>>

\* mutant: ProcessBuffer() looks at the head of the buffer once per read
R_ProcessOnce ==
    /\ rpc = "process"
    /\ ProcessBufferApply
    /\ rpc' = "test"
    /\ UNCHANGED <<running, wpc, spc, rx, delivered, txVars, envVars>>

\* ProcessBuffer(), one loop iteration; the thread goes back to the loop
\* test when the pass ends
R_Process ==
    /\ rpc = "process"
    /\ ProcessBufferApply
    /\ rpc' = IF LoopsAgain(ProcessBufferStep(input_buffer).kind)
              THEN "process" ELSE "test"
    /\ UNCHANGED <<running, wpc, spc, rx, delivered, txVars, envVars>>

\* std::this_thread::sleep_for(1ms)
R_Sleep ==
    /\ rpc = "sleep"
    /\ rpc' = "test"
    /\ UNCHANGED <<running, wpc, spc, rxVars, txVars, envVars>>

ReadThread == R_Test \/ R_ReadBytes \/ R_ReadNone \/ R_Process \/ R_Sleep

(***************************************************************************)
(* SerialTransport::Read: input_queue_.Pop(payload)                        *)
(***************************************************************************)
ReadHit ==
    /\ obj = "alive"
    /\ spc = "idle"
    /\ QPopOk(input_queue)
    /\ delivered' = Append(delivered, QPopValue(input_queue))
    /\ input_queue' = QPopRest(input_queue)
    /\ UNCHANGED <<threadVars, input_buffer, rx, validated, lastStep, pops,
                   txVars, envVars>>

ReadMiss ==
    /\ obj = "alive"
    /\ spc = "idle"
    /\ ~QPopOk(input_queue)
    /\ UNCHANGED vars

(***************************************************************************)
(* Receive runs: the device hands over one of the scenario streams, in     *)
(* chunks of any size; the read thread extracts frames and the owner polls *)
(* Read().  The write thread has nothing to send and is left out.          *)
(***************************************************************************)
\* frame f with payload byte i (1-based in the payload) replaced by v
Corrupt(f, i, v) == [f EXCEPT ![2 + i] = v]

\* the (position, new value) pairs that change one byte of payload p
Flips(p) == {c \in (1..Len(p)) \X ByteVals : c[2] # p[c[1]]}

SecondPayloads == [1..1 -> ByteVals]

\* the payload of the frame that follows a corrupted one
FollowPayload == <<ByteTable[3]>>

RxScenarios ==
    {[kind |-> "single", p |-> p, q |-> <<>>, stream |-> WireFrame(p)] :
        p \in Payloads}
    \cup {[kind |-> "badlen", p |-> p, q |-> <<>>,
           stream |-> <<StartByte, b>> \o WireFrame(p)] :
        p \in SecondPayloads, b \in 0..2}
    \cup {[kind |-> "two", p |-> p, q |-> q,
           stream |-> WireFrame(p) \o WireFrame(q)] :
        p \in Payloads, q \in SecondPayloads}
    \cup {[kind |-> "empty", p |-> <<>>, q |-> q,
           stream |-> WireFrame(<<>>) \o WireFrame(q)] :
        q \in SecondPayloads}
    \cup UNION {{[kind |-> "corrupt", p |-> p, q |-> FollowPayload,
                  stream |-> Corrupt(WireFrame(p), c[1], c[2])
                                \o WireFrame(FollowPayload)] :
                    c \in Flips(p)} :
                 p \in Payloads}

RxInit ==
    /\ StartInit
    /\ CtorDone
    /\ running = FALSE
    /\ rpc = "none"
    /\ wpc = "none"
    /\ spc = "idle"
    /\ input_buffer = NewCircularBuffer(InputBufferSize)
    /\ input_queue = <<>>
    /\ output_queue = <<>>
    /\ wframe = <<>>
    /\ written = 0
    /\ tx = <<>>
    /\ dev = "ok"
    /\ sent = <<>>
    /\ validated = <<>>
    /\ delivered = <<>>
    /\ lastStep = "none"
    /\ pops = <<>>
    /\ scen \in RxScenarios
    /\ rx = scen.stream
    /\ phase = "rx"

RxNext ==
    \/ Start
    \/ R_Test
    \/ R_ReadBytes
    \/ R_ReadNone
    \/ R_Process
    \/ R_Sleep
    \/ ReadHit
    \/ ReadMiss

SpecRx == RxInit /\ [][RxNext]_vars

(***************************************************************************)
(* SerialTransport::WriteLoop, one action per step of the write thread.    *)
(***************************************************************************)
\* while (running_)
W_Test ==
    /\ wpc = "test"
    /\ wpc' = IF running THEN "pop" ELSE "exited"
    /\ UNCHANGED <<running, rpc, spc, rxVars, txVars, envVars>>

\* mutant: the loop waits inside the queue until a frame is there
\* (WaitAndPop) instead of polling it
W_PopWait ==
    /\ wpc = "pop"
    /\ QPopOk(output_queue)
    /\ wframe' = QPopValue(output_queue)
    /\ output_queue' = QPopRest(output_queue)
    /\ written' = 0
    /\ wpc' = "inner"
    /\ UNCHANGED <<running, rpc, spc, rxVars, tx, sent, envVars>>

\* if (output_queue_.Pop(frame)) { size_t written = 0; ...
W_Pop ==
    /\ wpc = "pop"
    /\ IF QPopOk(output_queue)
       THEN /\ wframe' = QPopValue(output_queue)
            /\ output_queue' = QPopRest(output_queue)
            /\ written' = 0
            /\ wpc' = "inner"
       ELSE /\ wpc' = "sleep"
            /\ UNCHANGED <<wframe, output_queue, written>>
    /\ UNCHANGED <<running, rpc, spc, rxVars, tx, sent, envVars>>

\* mutant: the inner loop also ends when running_ is cleared
W_InnerTestRunning ==
    /\ wpc = "inner"
    /\ wpc' = IF written < Len(wframe) /\ running THEN "write" ELSE "test"
    /\ UNCHANGED <<running, rpc, spc, rxVars, txVars, envVars>>

\* while (written < frame.size())
W_InnerTest ==
    /\ wpc = "inner"
    /\ wpc' = IF written < Len(wframe) THEN "write" ELSE "test"
    /\ UNCHANGED <<running, rpc, spc, rxVars, txVars, envVars>>

\* mutant: the offset moves by one whatever the device accepted
AdvanceByOne(w, n) == w + 1

\* written += n
Advance(w, n) == w + n

\* n = ::write(fd_, frame.data() + written, frame.size() - written), n > 0
W_WriteSome ==
    /\ wpc = "write"
    /\ dev = "ok"
    /\ \E n \in 1..(Len(wframe) - written) :
          /\ tx' = tx \o SubSeq(wframe, written + 1, written + n)
          /\ written' = Advance(written, n)
    /\ wpc' = "inner"
    /\ UNCHANGED <<running, rpc, spc, rxVars, output_queue, wframe, sent,
                   envVars>>

\* ::write returned n <= 0
W_WriteFail ==
    /\ wpc = "write"
    /\ wpc' = "wsleep"
    /\ UNCHANGED <<running, rpc, spc, rxVars, txVars, envVars>>

\* sleep_for(1ms) inside the inner loop, then its test again
W_InnerSleep ==
    /\ wpc = "wsleep"
    /\ wpc' = "inner"
    /\ UNCHANGED <<running, rpc, spc, rxVars, txVars, envVars>>

\* sleep_for(1ms) after an empty Pop
W_Sleep ==
    /\ wpc = "sleep"
    /\ wpc' = "test"
    /\ UNCHANGED <<running, rpc, spc, rxVars, txVars, envVars>>

WriteThread ==
    W_Test \/ W_Pop \/ W_InnerTest \/ W_WriteSome \/ W_WriteFail
        \/ W_InnerSleep \/ W_Sleep

(***************************************************************************)
(* SerialTransport::Stop, one action per statement of the calling thread.  *)
(***************************************************************************)
\* running_ = false
S_Flag ==
    /\ obj = "alive"
    /\ spc = "idle"
    /\ running' = FALSE
    /\ spc' = "joinR"
    /\ UNCHANGED <<rpc, wpc, rxVars, txVars, envVars>>

\* if (read_thread_.joinable()) read_thread_.join()
S_JoinR ==
    /\ spc = "joinR"
    /\ rpc \in {"none", "exited"}
    /\ rpc' = "none"
    /\ spc' = "joinW"
    /\ UNCHANGED <<running, wpc, rxVars, txVars, envVars>>

\* if (write_thread_.joinable()) write_thread_.join()
S_JoinW ==
    /\ spc = "joinW"
    /\ wpc \in {"none", "exited"}
    /\ wpc' = "none"
    /\ spc' = "idle"
    /\ UNCHANGED <<running, rpc, rxVars, txVars, envVars>>

StopSteps == S_Flag \/ S_JoinR \/ S_JoinW

(***************************************************************************)
(* The owner calls Send; the device may stop accepting bytes for good      *)
(* (adapter unplugged: every later read and write fails).                  *)
(***************************************************************************)
CallSend ==
    /\ spc = "idle"
    /\ Len(sent) < scen.sends
    /\ \E p \in scen.payloads :
          /\ output_queue' = Send(output_queue, p)
          /\ sent' = IF SendRejects(p) THEN sent ELSE Append(sent, SendFrame(p))
    /\ UNCHANGED <<threadVars, rxVars, wframe, written, tx, envVars>>

DeviceGone ==
    /\ dev = "ok"
    /\ dev' = "gone"
    /\ UNCHANGED <<threadVars, rxVars, txVars, scen, phase, startVars,
                   queueVars, ctorVars, connVars, panelVars>>

(***************************************************************************)
(* Transmit runs: the owner starts the transport and calls Send up to      *)
(* MaxSends times while the write thread drains the queue; each write is   *)
(* accepted in part or fails and is retried.                               *)
(***************************************************************************)
MaxSends == 3
MaxTxLen == 2

TxPayloads == {Pattern(n, n) : n \in 1..MaxTxLen}

TxInit ==
    /\ TransportInit
    /\ scen = [kind |-> "tx", sends |-> MaxSends, payloads |-> TxPayloads]
    /\ phase = "tx"

TxNext ==
    \/ Start
    \/ CallSend
    \/ W_Test
    \/ W_Pop
    \/ W_InnerTest
    \/ W_WriteSome
    \/ W_WriteFail
    \/ W_InnerSleep
    \/ W_Sleep

SpecTx == TxInit /\ [][TxNext]_vars

(***************************************************************************)
(* Lifecycle runs: Start, at most StopSends Send calls, both threads, the  *)
(* device delivering StopStream, Stop.  Each thread keeps running (weak    *)
(* fairness on its steps), a join returns once its thread has exited, and  *)
(* a write tried again and again on a working device is accepted (strong   *)
(* fairness on W_WriteSome).                                               *)
(***************************************************************************)
StopSends == 1

StopStream == WireFrame(Pattern(1, 1))

StopInit ==
    /\ StartInit
    /\ CtorDone
    /\ running = FALSE
    /\ rpc = "none"
    /\ wpc = "none"
    /\ spc = "idle"
    /\ input_buffer = NewCircularBuffer(InputBufferSize)
    /\ input_queue = <<>>
    /\ output_queue = <<>>
    /\ wframe = <<>>
    /\ written = 0
    /\ tx = <<>>
    /\ dev = "ok"
    /\ sent = <<>>
    /\ validated = <<>>
    /\ delivered = <<>>
    /\ lastStep = "none"
    /\ pops = <<>>
    /\ rx = StopStream
    /\ scen = [kind |-> "stop", sends |-> StopSends,
               payloads |-> {Pattern(1, 1)}]
    /\ phase = "life"

StopNext ==
    \/ Start
    \/ CallSend
    \/ DeviceGone
    \/ R_Test
    \/ R_ReadBytes
    \/ R_ReadNone
    \/ R_Process
    \/ R_Sleep
    \/ W_Test
    \/ W_Pop
    \/ W_InnerTest
    \/ W_WriteSome
    \/ W_WriteFail
    \/ W_InnerSleep
    \/ W_Sleep
    \/ S_Flag
    \/ S_JoinR
    \/ S_JoinW

SpecStop ==
    /\ StopInit
    /\ [][StopNext]_vars
    /\ WF_vars(ReadThread)
    /\ WF_vars(WriteThread)
    /\ SF_vars(W_WriteSome)
    /\ WF_vars(S_JoinR \/ S_JoinW)

(***************************************************************************)
(* Claims about frame extraction and inbound delivery (under SpecRx).      *)
(***************************************************************************)
\* every byte of the stream was read and the extraction pass has ended
RxDone == rx = <<>> /\ rpc # "process"

Ones(n) == [i \in 1..n |-> 1]

\* no position of the first frame after its start marker looks like the
\* start of a frame (0xAA followed by a possible length byte)
NoFalseStart(stream, n1) ==
    \A k \in 2..n1 : ~(stream[k] = 170 /\ stream[k + 1] >= 3)

\* C5 (as claimed): a valid frame with one payload byte flipped, followed at
\* once by a second valid frame: nothing is emitted for the corrupted frame,
\* it is passed one byte at a time, and the second frame's payload is
\* delivered.
C5_Resync ==
    (scen.kind = "corrupt" /\ RxDone)
        => /\ validated = <<scen.q>>
           /\ pops = Ones(Len(WireFrame(scen.p))) \o <<Len(WireFrame(scen.q))>>

\* C5 (amended): the same, provided no byte of the corrupted frame after its
\* start marker is 0xAA followed by a byte >= 3 (no false frame start inside
\* the corrupted frame).
C5_ResyncNoFalseStart ==
    (scen.kind = "corrupt" /\ RxDone
        /\ NoFalseStart(scen.stream, Len(WireFrame(scen.p))))
        => /\ validated = <<scen.q>>
           /\ pops = Ones(Len(WireFrame(scen.p))) \o <<Len(WireFrame(scen.q))>>
           /\ CBSize(input_buffer) = 0

C5_Witness ==
    /\ scen.kind = "corrupt"
    /\ Len(scen.p) = 2
    /\ NoFalseStart(scen.stream, Len(WireFrame(scen.p)))
    /\ RxDone
    /\ delivered = <<scen.q>>
    /\ Len(pops) = 7

\* C6: the bytes [0xAA, b] with b < 3 followed at once by one well-formed
\* frame yield exactly one inbound payload, the frame's, the two leading
\* bytes being discarded one per extraction step.
C6_BadLength ==
    scen.kind = "badlen"
        => /\ Len(validated) <= 1
           /\ RxDone => /\ validated = <<scen.p>>
                        /\ pops = <<1, 1, Len(WireFrame(scen.p))>>
                        /\ CBSize(input_buffer) = 0

C6_Witness ==
    /\ scen.kind = "badlen"
    /\ scen.stream[2] = 0
    /\ RxDone
    /\ delivered = <<scen.p>>
    /\ input_queue = <<>>

\* the oldest byte is 0xAA, the length byte is >= 3 and fewer than
\* 1 + length bytes are buffered
PartialFrame(cb) ==
    /\ CBSize(cb) >= 2
    /\ CBPeek(cb, 0) = 170
    /\ CBPeek(cb, 1) >= 3
    /\ CBSize(cb) < 1 + CBPeek(cb, 1)

\* C7: on a partial frame the extraction step removes no byte, pushes no
\* payload and ends the pass; a frame received in several chunks is
\* delivered once its last bytes have arrived.
C7_PartialFrame ==
    /\ [][(R_Process /\ PartialFrame(input_buffer))
            => /\ input_buffer' = input_buffer
               /\ input_queue' = input_queue
               /\ validated' = validated
               /\ pops' = pops
               /\ rpc' = "test"]_vars
    /\ []((scen.kind = "single" /\ RxDone)
            => /\ validated = <<scen.p>>
               /\ CBSize(input_buffer) = 0)

C7_Witness ==
    /\ scen.kind = "single"
    /\ Len(scen.p) = 2
    /\ rpc = "test"
    /\ lastStep = "partial"
    /\ PartialFrame(input_buffer)
    /\ CBSize(input_buffer) = 5
    /\ Len(rx) = 1
    /\ validated = <<>>

\* C8: once Stop() has cleared the running flag, both loops eventually exit
\* and Stop() returns after joining both.
C8_StopReturns ==
    (spc = "joinR") ~> (spc = "idle" /\ rpc = "none" /\ wpc = "none")

RECURSIVE Flatten(_)
Flatten(frames) ==
    IF frames = <<>> THEN <<>> ELSE Head(frames) \o Flatten(Tail(frames))

IsPrefix(a, b) == Len(a) <= Len(b) /\ SubSeq(b, 1, Len(a)) = a

\* C9: the bytes written to the device are a prefix of the frames Send
\* enqueued, concatenated in enqueue order; together with the unwritten rest
\* of the frame in hand and the frames still queued they are exactly that
\* concatenation (nothing reordered, interleaved, duplicated or cut).
C9_OutboundOrder ==
    /\ IsPrefix(tx, Flatten(sent))
    /\ written <= Len(wframe)
    /\ tx \o SubSeq(wframe, written + 1, Len(wframe)) \o Flatten(output_queue)
           = Flatten(sent)

C9_Witness ==
    /\ scen.kind = "tx"
    /\ Len(sent) = 3
    /\ sent[1] # sent[2]
    /\ wframe = sent[2]
    /\ wpc = "wsleep"
    /\ written = 2
    /\ tx = sent[1] \o SubSeq(sent[2], 1, 2)
    /\ output_queue = <<sent[3]>>

\* C10: the payloads successive successful Read() calls returned, followed
\* by those still queued, are exactly the payloads ProcessBuffer validated,
\* in validation order; two valid frames back to back are validated in
\* stream order.
C10_InboundOrder ==
    /\ delivered \o input_queue = validated
    /\ (scen.kind = "two" /\ RxDone) => validated = <<scen.p, scen.q>>

C10_Witness ==
    /\ scen.kind = "two"
    /\ scen.p # scen.q
    /\ delivered = <<scen.p, scen.q>>
    /\ input_queue = <<>>

(***************************************************************************)
(* SerialTransport::Start statement by statement, for threads that call it *)
(* at the same time.  running_ is atomic; read_thread_ and write_thread_   *)
(* are plain std::thread members.                                          *)
(***************************************************************************)
\* a thread calls Start()
St_Enter(c) ==
    /\ ~aborted
    /\ cpc[c] = "out"
    /\ cpc' = [cpc EXCEPT ![c] = "check"]
    /\ UNCHANGED <<threadVars, rxVars, txVars, dev, scen, phase, queueVars, ctorVars, connVars, panelVars,
                   spawned,
                   aborted>>

\* if (running_) return;
St_Check(c) ==
    /\ ~aborted
    /\ cpc[c] = "check"
    /\ cpc' = [cpc EXCEPT ![c] = IF running THEN "out" ELSE "set"]
    /\ UNCHANGED <<threadVars, rxVars, txVars, dev, scen, phase, queueVars, ctorVars, connVars, panelVars,
                   spawned,
                   aborted>>

\* running_ = true;
St_Set(c) ==
    /\ ~aborted
    /\ cpc[c] = "set"
    /\ running' = TRUE
    /\ cpc' = [cpc EXCEPT ![c] = "spawnR"]
    /\ UNCHANGED <<rpc, wpc, spc, rxVars, txVars, dev, scen, phase, queueVars, ctorVars, connVars, panelVars,
                   spawned,
                   aborted>>

\* what assigning a new std::thread to a handle does: a handle that is
\* already joinable makes the move assignment call std::terminate; when the
\* other caller assigns the same member at the same time (a data race) the
\* handle may also just be overwritten
AssignOutcomes(n) == IF n = 0 THEN {FALSE} ELSE {TRUE, FALSE}

\* read_thread_ = std::thread(&SerialTransport::ReadLoop, this);
St_SpawnR(c) ==
    /\ ~aborted
    /\ cpc[c] = "spawnR"
    /\ spawned' = [spawned EXCEPT !.read = @ + 1]
    /\ rpc' = "test"
    /\ aborted' \in AssignOutcomes(spawned.read)
    /\ cpc' = [cpc EXCEPT ![c] = "spawnW"]
    /\ UNCHANGED <<running, wpc, spc, rxVars, txVars, dev, scen, phase,
                   queueVars, ctorVars, connVars, panelVars>>

\* write_thread_ = std::thread(&SerialTransport::WriteLoop, this);
St_SpawnW(c) ==
    /\ ~aborted
    /\ cpc[c] = "spawnW"
    /\ spawned' = [spawned EXCEPT !.write = @ + 1]
    /\ wpc' = "test"
    /\ aborted' \in AssignOutcomes(spawned.write)
    /\ cpc' = [cpc EXCEPT ![c] = "out"]
    /\ UNCHANGED <<running, rpc, spc, rxVars, txVars, dev, scen, phase,
                   queueVars, ctorVars, connVars, panelVars>>

StartInitCalls ==
    /\ TransportInit
    /\ scen = [kind |-> "start"]
    /\ phase = "start"

StartNext ==
    \E c \in Callers :
        \/ St_Enter(c)
        \/ St_Check(c)
        \/ St_Set(c)
        \/ St_SpawnR(c)
        \/ St_SpawnW(c)

SpecStart == StartInitCalls /\ [][StartNext]_vars

(***************************************************************************)
(* Ring buffer runs: a CircularBuffer of RingCap bytes that was filled and *)
(* drained by h bytes (so that it is empty with head_ = tail_ = h) takes   *)
(* RingCap + k bytes, in one Push or split over several.  The byte at      *)
(* stream offset i is 16 + i.                                              *)
(***************************************************************************)
RingBits == 2
MaxExtra == 1

RingCap == 2 ^ RingBits

RingStream(n) == [i \in 1..n |-> 16 + (i - 1)]

RingScenarios ==
    {[kind |-> "ring", k |-> k, h |-> h, stream |-> RingStream(RingCap + k)] :
        k \in 1..(RingCap + MaxExtra), h \in 0..(RingCap - 1)}

\* the second memcpy of Push copies len - first_chunk bytes to &buffer_[0]:
\* it leaves the storage when that is more than size_ bytes
PushOverruns(cb, len) ==
    LET space_at_end == cb.size_ - cb.head_
        first_chunk == IF len < space_at_end THEN len ELSE space_at_end
    IN  len - first_chunk > cb.size_

\* every cell written so far lies inside buffer_ (size_ bytes)
InStorage(cb) == \A i \in DOMAIN cb.buffer_ : i >= 0 /\ i < cb.size_

RingInit ==
    /\ StartInit
    /\ CtorDone
    /\ running = FALSE
    /\ rpc = "none"
    /\ wpc = "none"
    /\ spc = "idle"
    /\ input_buffer = NewCircularBuffer(RingCap)
    /\ input_queue = <<>>
    /\ output_queue = <<>>
    /\ wframe = <<>>
    /\ written = 0
    /\ tx = <<>>
    /\ dev = "ok"
    /\ sent = <<>>
    /\ validated = <<>>
    /\ delivered = <<>>
    /\ lastStep = "none"
    /\ pops = <<>>
    /\ scen \in RingScenarios
    /\ rx = scen.stream
    /\ phase = "fresh"

\* Push(h bytes) then Pop(h): the buffer is empty again, head_ = tail_ = h
RingDrain ==
    /\ phase = "fresh"
    /\ input_buffer' = CBPop(CBPush(input_buffer, [i \in 1..scen.h |-> 1],
                                    scen.h), scen.h)
    /\ phase' = "push"
    /\ UNCHANGED <<threadVars, input_queue, rx, validated, delivered, lastStep,
                   pops, txVars, dev, scen,
                   startVars, queueVars, ctorVars, connVars, panelVars>>

\* Push(data, n) with the next n bytes of the stream; a Push that writes
\* past the storage corrupts the heap: the process may go on or crash
RingPush ==
    /\ phase = "push"
    /\ ~aborted
    /\ \E n \in 1..Len(rx) :
          /\ input_buffer' = CBPush(input_buffer, SubSeq(rx, 1, n), n)
          /\ rx' = SubSeq(rx, n + 1, Len(rx))
          /\ aborted' \in IF PushOverruns(input_buffer, n) THEN {TRUE, FALSE}
                          ELSE {FALSE}
    /\ UNCHANGED <<threadVars, input_queue, validated, delivered, lastStep,
                   pops, txVars, dev, scen, phase, cpc, spawned, queueVars,
                   ctorVars, connVars, panelVars>>

RingNext == RingDrain \/ RingPush

SpecRing == RingInit /\ [][RingNext]_vars

(***************************************************************************)
(* ThreadSafeQueue on its own: producer threads call Push, consumer        *)
(* threads call Pop (polling runs) or WaitAndPop (waiting runs).  Each     *)
(* method body runs under mutex_, so it is one step; a WaitAndPop that     *)
(* finds the queue empty releases the mutex inside cond_.wait and goes on  *)
(* in a later step, after a notification or a spurious wake-up.            *)
(***************************************************************************)
TotalPushes == Cardinality(scen.producers) * MaxPush

QueueScenarios ==
    {[kind |-> "queue", mode |-> "poll", producers |-> Producers, consumers |-> {1}],
     [kind |-> "queue", mode |-> "poll", producers |-> {1}, consumers |-> Consumers],
     [kind |-> "queue", mode |-> "wait", producers |-> {1}, consumers |-> Consumers]}

\* mutant: Push forgets cond_.notify_one()
NotifyNobody(cs) == {cs}

\* cond_.notify_one(): one of the threads blocked in cond_.wait, if there is
\* one, is made runnable
NotifyOne(cs) ==
    LET waiters == {c \in DOMAIN cs : cs[c] = "waiting"}
    IN  IF waiters = {} THEN {cs}
        ELSE {[cs EXCEPT ![w] = "woken"] : w \in waiters}

\* ThreadSafeQueue::Push by producer p; its items are <<p, 1>>, <<p, 2>>, ...
Q_Push(p) ==
    /\ scen.kind = "queue"
    /\ p \in scen.producers
    /\ pidx[p] < MaxPush
    /\ queue_' = QPush(queue_, <<p, pidx[p] + 1>>)
    /\ pidx' = [pidx EXCEPT ![p] = @ + 1]
    /\ cstate' \in NotifyOne(cstate)
    /\ UNCHANGED <<threadVars, rxVars, txVars, dev, scen, phase, startVars,
                   ctorVars, connVars, panelVars, res, popped, wcalls>>

\* lock; value = queue_.front(); queue_.pop(); by consumer c
TakeFront(c, ret) ==
    /\ res' = [res EXCEPT ![c] = [ret |-> ret, value |-> QPopValue(queue_)]]
    /\ popped' = Append(popped, QPopValue(queue_))
    /\ queue_' = QPopRest(queue_)

\* ThreadSafeQueue::Pop(value) by consumer c
Q_TryPop(c) ==
    /\ scen.kind = "queue"
    /\ scen.mode = "poll"
    /\ c \in scen.consumers
    /\ cstate[c] = "out"
    /\ IF QPopOk(queue_)
       THEN TakeFront(c, "true")
       ELSE /\ res' = [res EXCEPT ![c].ret = "false"]
            /\ UNCHANGED <<queue_, popped>>
    /\ UNCHANGED <<threadVars, rxVars, txVars, dev, scen, phase, startVars,
                   ctorVars, connVars, panelVars, pidx, cstate, wcalls>>

\* ThreadSafeQueue::WaitAndPop(value) entered by consumer c: the predicate
\* of cond_.wait is tested first; when it fails the thread blocks
Q_WaitEnter(c) ==
    /\ scen.kind = "queue"
    /\ scen.mode = "wait"
    /\ c \in scen.consumers
    /\ cstate[c] = "out"
    /\ wcalls < TotalPushes
    /\ wcalls' = wcalls + 1
    /\ IF QPopOk(queue_)
       THEN TakeFront(c, "item") /\ UNCHANGED cstate
       ELSE /\ cstate' = [cstate EXCEPT ![c] = "waiting"]
            /\ UNCHANGED <<queue_, res, popped>>
    /\ UNCHANGED <<threadVars, rxVars, txVars, dev, scen, phase, startVars,
                   ctorVars, connVars, panelVars, pidx>>

\* a thread made runnable takes mutex_ again and tests the predicate
Q_Wake(c) ==
    /\ cstate[c] = "woken"
    /\ IF QPopOk(queue_)
       THEN TakeFront(c, "item") /\ cstate' = [cstate EXCEPT ![c] = "out"]
       ELSE /\ cstate' = [cstate EXCEPT ![c] = "waiting"]
            /\ UNCHANGED <<queue_, res, popped>>
    /\ UNCHANGED <<threadVars, rxVars, txVars, dev, scen, phase, startVars,
                   ctorVars, connVars, panelVars, pidx, wcalls>>

\* std::condition_variable may wake a waiter without a notification
Q_Spurious(c) ==
    /\ cstate[c] = "waiting"
    /\ cstate' = [cstate EXCEPT ![c] = "woken"]
    /\ UNCHANGED <<threadVars, rxVars, txVars, dev, scen, phase, startVars,
                   ctorVars, connVars, panelVars, queue_, pidx, res, popped, wcalls>>

QueueRunInit ==
    /\ TransportInit
    /\ scen \in QueueScenarios
    /\ phase = "queue"

QueueNext ==
    \/ \E p \in Producers : Q_Push(p)
    \/ \E c \in Consumers : Q_TryPop(c)
    \/ \E c \in Consumers : Q_WaitEnter(c)
    \/ \E c \in Consumers : Q_Wake(c)
    \/ \E c \in Consumers : Q_Spurious(c)

\* every producer goes on to push its MaxPush items, and a runnable
\* consumer gets the mutex
SpecQueue ==
    /\ QueueRunInit
    /\ [][QueueNext]_vars
    /\ WF_vars(\E p \in Producers : Q_Push(p))
    /\ \A c \in Consumers : WF_vars(Q_Wake(c))

(***************************************************************************)
(* SerialTransport::SerialTransport as ECUConnector::Connect runs it, one  *)
(* action per system call, each of which may succeed or fail; then Start,  *)
(* the idle threads, Stop and the destructor (Disconnect).                 *)
(***************************************************************************)
ErrOpen == "Error opening serial port"
ErrGetAttr == "Error getting serial attributes"
ErrSetAttr == "Error setting serial attributes"

\* mutant: the failure path throws without close(fd_)
FdLeftOpen(f) == f

\* close(fd_); before the throw
FdOnFailure(f) == "closed"

\* fd_ = open(...); if (fd_ < 0) throw
Ctor_Open ==
    /\ obj \in {"none", "failed"}
    /\ \/ fd' = "open" /\ obj' = "opened" /\ err' = ""
       \/ fd' = fd /\ obj' = "failed" /\ err' = ErrOpen
    /\ UNCHANGED <<threadVars, rxVars, txVars, dev, scen, phase, startVars,
                   queueVars, connVars, panelVars>>

\* if (tcgetattr(fd_, &tty) != 0) { close(fd_); throw }
Ctor_GetAttr ==
    /\ obj = "opened"
    /\ \/ obj' = "attrs" /\ UNCHANGED <<fd, err>>
       \/ fd' = FdOnFailure(fd) /\ obj' = "failed" /\ err' = ErrGetAttr
    /\ UNCHANGED <<threadVars, rxVars, txVars, dev, scen, phase, startVars,
                   queueVars, connVars, panelVars>>

\* the flag settings, then if (tcsetattr(fd_, TCSANOW, &tty) != 0)
\* { close(fd_); throw }
Ctor_SetAttr ==
    /\ obj = "attrs"
    /\ \/ fd' = "configured" /\ obj' = "alive" /\ err' = err
       \/ fd' = FdOnFailure(fd) /\ obj' = "failed" /\ err' = ErrSetAttr
    /\ UNCHANGED <<threadVars, rxVars, txVars, dev, scen, phase, startVars,
                   queueVars, connVars, panelVars>>

\* ~SerialTransport of a stopped transport: Stop() finds nothing to join,
\* then close(fd_); the members (ring buffer, queues) go with the object,
\* and the next construction starts from empty ones
Dtor ==
    /\ obj = "alive"
    /\ spc = "idle"
    /\ ~running
    /\ rpc = "none"
    /\ wpc = "none"
    /\ fd' = "closed"
    /\ obj' = "none"
    /\ input_buffer' = NewCircularBuffer(InputBufferSize)
    /\ input_queue' = <<>>
    /\ output_queue' = <<>>
    /\ UNCHANGED <<threadVars, rx, validated, delivered, lastStep, pops,
                   wframe, written, tx, sent, dev, scen, phase, startVars,
                   queueVars, connVars, panelVars, err>>

\* an ECUConnector before any Connect: transport_ is empty
NoTransport ==
    /\ StartInit
    /\ obj = "none"
    /\ fd = "closed"
    /\ err = ""
    /\ running = FALSE
    /\ rpc = "none"
    /\ wpc = "none"
    /\ spc = "idle"
    /\ input_buffer = NewCircularBuffer(InputBufferSize)
    /\ input_queue = <<>>
    /\ output_queue = <<>>
    /\ wframe = <<>>
    /\ written = 0
    /\ rx = StopStream
    /\ tx = <<>>
    /\ dev = "ok"
    /\ sent = <<>>
    /\ validated = <<>>
    /\ delivered = <<>>
    /\ lastStep = "none"
    /\ pops = <<>>

ConnectInit ==
    /\ NoTransport
    /\ scen = [kind |-> "connect"]
    /\ phase = "connect"

ConnectNext ==
    \/ Ctor_Open
    \/ Ctor_GetAttr
    \/ Ctor_SetAttr
    \/ Start
    \/ R_Test
    \/ R_ReadBytes
    \/ R_ReadNone
    \/ R_Process
    \/ R_Sleep
    \/ ReadHit
    \/ W_Test
    \/ W_Pop
    \/ W_Sleep
    \/ S_Flag
    \/ S_JoinR
    \/ S_JoinW
    \/ Dtor

SpecConnect == ConnectInit /\ [][ConnectNext]_vars

(***************************************************************************)
(* Claims about the threads of the transport.                              *)
(***************************************************************************)
\* C11 (as claimed): the write loop suspends only inside the queue's
\* blocking wait: it is never in one of its sleep_for calls, and it never
\* finds the queue empty with a non-blocking Pop.
C11_BlocksInQueue ==
    /\ wpc \notin {"sleep", "wsleep"}
    /\ ~(wpc = "pop" /\ running /\ output_queue = <<>> /\ ENABLED W_Pop)

\* C11 (amended): the write loop polls the queue with the non-blocking Pop,
\* which returns at once whether or not a frame is queued; on an empty queue
\* it sleeps for 1 ms and tests the running flag again, and otherwise it
\* takes the front frame; it never waits inside the queue.
C11_PollsQueue ==
    /\ [](wpc = "pop" => ENABLED W_Pop)
    /\ [][(wpc = "pop" /\ wpc' # wpc)
            => IF output_queue = <<>>
               THEN wpc' = "sleep" /\ output_queue' = <<>> /\ wframe' = wframe
               ELSE /\ wpc' = "inner"
                    /\ wframe' = Head(output_queue)
                    /\ output_queue' = Tail(output_queue)]_vars
    /\ [][(wpc = "sleep" /\ wpc' # wpc) => wpc' = "test"]_vars

C11_Witness ==
    /\ scen.kind = "tx"
    /\ running
    /\ wpc = "sleep"
    /\ output_queue = <<>>
    /\ Len(sent) = 1
    /\ tx = sent[1]

\* C12: however Start() calls follow or overlap each other without a Stop(),
\* at most one read thread and one write thread are created and the process
\* is not terminated; once every call has returned on a running transport
\* there is exactly one of each.
C12_OneThreadEach ==
    /\ spawned.read <= 1
    /\ spawned.write <= 1
    /\ ~aborted
    /\ (running /\ \A c \in Callers : cpc[c] = "out")
           => spawned = [read |-> 1, write |-> 1]

\* C13: pushing RingCap + k bytes (k > 0) into an empty ring buffer, in one
\* Push or in several, never writes outside the buffer's storage, and leaves
\* Size() = capacity and Peek(0) = the byte at stream offset k.
C13_BoundedMemory ==
    scen.kind = "ring"
        => /\ InStorage(input_buffer)
           /\ ~aborted
           /\ (phase = "push" /\ rx = <<>>)
                 => /\ CBSize(input_buffer) = RingCap
                    /\ CBPeek(input_buffer, 0) = scen.stream[scen.k + 1]

(***************************************************************************)
(* Claims about ThreadSafeQueue (under SpecQueue).                         *)
(***************************************************************************)
\* the items of producer p in sequence seq, in their order in seq
RECURSIVE OfProducer(_, _)
OfProducer(seq, p) ==
    IF seq = <<>> THEN <<>>
    ELSE IF Head(seq)[1] = p THEN <<Head(seq)>> \o OfProducer(Tail(seq), p)
    ELSE OfProducer(Tail(seq), p)

\* C14: for any interleaving of the producers' Push calls, the items popped
\* so far followed by the items still queued contain, for each producer,
\* exactly the items it pushed, once each and in its push order; so a single
\* consumer observes each producer's items in that producer's order, no item
\* twice and none that was not pushed.
C14_QueueFifo ==
    scen.kind = "queue"
        => \A p \in Producers :
              OfProducer(popped \o queue_, p) = [n \in 1..pidx[p] |-> <<p, n>>]

C14_Witness ==
    /\ scen.kind = "queue"
    /\ scen.mode = "poll"
    /\ scen.consumers = {1}
    /\ scen.producers = Producers
    /\ popped = <<<<2, 1>>, <<1, 1>>, <<1, 2>>, <<2, 2>>>>
    /\ queue_ = <<>>

\* C15: a thread inside WaitAndPop returns only when the queue holds an
\* item, with the front item; and when as many items are pushed as
\* WaitAndPop calls are made, every blocked caller eventually returns.
C15_WaitAndPop ==
    /\ [][\A c \in Consumers :
            (cstate[c] # "out" /\ cstate'[c] = "out")
                => /\ queue_ # <<>>
                   /\ res'[c] = [ret |-> "item", value |-> Head(queue_)]
                   /\ queue_' = Tail(queue_)]_vars
    /\ \A c \in Consumers : (cstate[c] = "waiting") ~> (cstate[c] = "out")

C15_Witness ==
    /\ scen.mode = "wait"
    /\ wcalls = TotalPushes
    /\ Len(popped) = TotalPushes
    /\ \A c \in Consumers : cstate[c] = "out" /\ res[c].ret = "item"
    /\ res[1].value # res[2].value

\* C16: the non-blocking Pop always returns at once; on an empty queue it
\* returns false and changes neither the queue nor the caller's value, on a
\* non-empty queue it returns true with the front item and removes it.
C16_TryPop ==
    /\ []((scen.kind = "queue" /\ scen.mode = "poll")
            => \A c \in scen.consumers : ENABLED Q_TryPop(c))
    /\ [][\A c \in Consumers :
            Q_TryPop(c)
                => IF queue_ = <<>>
                   THEN /\ queue_' = <<>>
                        /\ res'[c] = [ret |-> "false", value |-> res[c].value]
                   ELSE /\ queue_' = Tail(queue_)
                        /\ res'[c] = [ret |-> "true", value |-> Head(queue_)]]_vars

C16_Witness ==
    /\ scen.kind = "queue"
    /\ scen.mode = "poll"
    /\ queue_ = <<>>
    /\ res[1] = [ret |-> "false", value |-> <<1, 1>>]
    /\ popped = <<<<1, 1>>>>

(***************************************************************************)
(* Claims about construction and the command layer.                        *)
(***************************************************************************)
\* C17: when open, tcgetattr or tcsetattr fails the constructor throws: no
\* transport object exists, the descriptor is closed and no thread was
\* started; threads only ever run on a fully constructed transport whose
\* descriptor is open and configured.
C17_CtorFailure ==
    scen.kind = "connect"
        => /\ obj = "failed"
                => /\ fd = "closed"
                   /\ err \in {ErrOpen, ErrGetAttr, ErrSetAttr}
           /\ obj # "alive"
                => ~running /\ rpc = "none" /\ wpc = "none"
           /\ obj = "alive" => fd = "configured"
           /\ fd # "closed" => obj \in {"opened", "attrs", "alive"}

C17_Witness ==
    /\ scen.kind = "connect"
    /\ obj = "failed"
    /\ err = ErrSetAttr
    /\ fd = "closed"
    /\ ~running

\* ---------------------------------------------------------------------------
\* ECUConnector: requests and the decoding of inbound payloads
\* ---------------------------------------------------------------------------

\* command ids ProcessIncomingData dispatches on
CmdApiVersion == 1
CmdEncoder == 4
CmdAllEncoders == 5
CmdImu == 6

\* minimum payload sizes ProcessIncomingData requires
ApiVersionMinSize == 2
EncoderMinSize == 5
AllEncodersMinSize == 17
ImuMinSize == 53

\* C++ payload[i] (0-based) of a payload held as a 1-based sequence
At(payload, i) == payload[i + 1]

\* (b1 << 24) | (b2 << 16) | (b3 << 8) | b4 stored in an int32_t
Int32BE(b1, b2, b3, b4) ==
    LET hi == IF b1 >= 128 THEN b1 - 256 ELSE b1
    IN  hi * 16777216 + b2 * 65536 + b3 * 256 + b4

Abs(v) == IF v < 0 THEN 0 - v ELSE v

\* number of binary digits of a > 0
RECURSIVE BitLen(_)
BitLen(a) == IF a = 0 THEN 0 ELSE 1 + BitLen(a \div 2)

\* static_cast<float>(val) of an int32_t: the nearest value with a 24-bit
\* significand, ties to even; the float is mant * 2^exp, negated when neg
ToFloat(val) ==
    LET a == Abs(val)
        e == IF BitLen(a) > 24 THEN BitLen(a) - 24 ELSE 0
        q == a \div (2 ^ e)
        r == a % (2 ^ e)
        half == IF e = 0 THEN 1 ELSE 2 ^ (e - 1)
        up == e > 0 /\ (r > half \/ (r = half /\ q % 2 = 1))
        m == IF up THEN q + 1 ELSE q
    IN  IF m = 16777216
        THEN [neg |-> val < 0, mant |-> 8388608, exp |-> e + 1]
        ELSE [neg |-> val < 0, mant |-> m, exp |-> e]

\* readFloat(offset): the 32-bit pattern copied into the float, written most
\* significant byte first
ReadFloat(payload, offset) ==
    <<At(payload, offset + 3), At(payload, offset + 2),
      At(payload, offset + 1), At(payload, offset)>>

\* the ImuData the 0x06 branch fills in
DecodeImu(payload) ==
    [accel_x |-> ReadFloat(payload, 5),
     accel_y |-> ReadFloat(payload, 1),
     accel_z |-> ReadFloat(payload, 9),
     gyro_x  |-> ReadFloat(payload, 17),
     gyro_y  |-> ReadFloat(payload, 13),
     gyro_z  |-> ReadFloat(payload, 21),
     mag_x   |-> ReadFloat(payload, 29),
     mag_y   |-> ReadFloat(payload, 25),
     mag_z   |-> ReadFloat(payload, 33),
     quat_w  |-> ReadFloat(payload, 37),
     quat_x  |-> ReadFloat(payload, 41),
     quat_y  |-> ReadFloat(payload, 45),
     quat_z  |-> ReadFloat(payload, 49)]

\* the 0x05 branch: four big-endian int32 converted to float
DecodeAllEncoders(payload) ==
    [i \in 1..4 |->
        ToFloat(Int32BE(At(payload, 1 + (i - 1) * 4),
                        At(payload, 2 + (i - 1) * 4),
                        At(payload, 3 + (i - 1) * 4),
                        At(payload, 4 + (i - 1) * 4)))]

ApiVersionFromId(payload) == At(payload, 0) + 1
\* int version = payload[1]
ApiVersionOf(payload) == At(payload, 1)

\* one pass of the while body: the signals emitted for one payload and the
\* value of lastRequestedEncoderMotor_ afterwards
HandlePayload(payload, last) ==
    IF Len(payload) = 0 THEN [emit |-> <<>>, last |-> last]
    ELSE IF At(payload, 0) = CmdApiVersion
    THEN IF Len(payload) >= ApiVersionMinSize
         THEN [emit |-> <<[sig |-> "ApiVersionReceived",
                           version |-> ApiVersionOf(payload)]>>,
               last |-> last]
         ELSE [emit |-> <<>>, last |-> last]
    ELSE IF At(payload, 0) = CmdEncoder
    THEN IF Len(payload) >= EncoderMinSize /\ last >= 0
         THEN [emit |-> <<[sig |-> "EncoderValueUpdated",
                           motor |-> last,
                           value |-> ToFloat(Int32BE(At(payload, 1), At(payload, 2),
                                                     At(payload, 3), At(payload, 4)))]>>,
               last |-> 0 - 1]
         ELSE [emit |-> <<>>, last |-> last]
    ELSE IF At(payload, 0) = CmdAllEncoders
    THEN IF Len(payload) >= AllEncodersMinSize
         THEN [emit |-> <<[sig |-> "EncoderValuesUpdated",
                           values |-> DecodeAllEncoders(payload)]>>,
               last |-> last]
         ELSE [emit |-> <<>>, last |-> last]
    ELSE IF At(payload, 0) = CmdImu
    THEN IF Len(payload) >= ImuMinSize
         THEN [emit |-> <<[sig |-> "ImuDataReceived",
                           data |-> DecodeImu(payload)]>>,
               last |-> last]
         ELSE [emit |-> <<>>, last |-> last]
    ELSE [emit |-> <<>>, last |-> last]

\* mutant: an empty payload ends the loop (break in place of continue)
AfterPayloadBreak(payload) == IF Len(payload) = 0 THEN "idle" ELSE "poll"

\* where the caller of ProcessIncomingData stands after a payload: at the
\* test of the while loop, whatever the payload was
AfterPayload(payload) == "poll"

\* ECUConnector::ProcessIncomingData, one test of its while loop: the call
\* begins (spc = "idle") or goes round (spc = "poll"); transport_->Read takes
\* the oldest payload under the queue mutex and the body handles it, or the
\* queue is empty, or there is no transport, and the call returns.  The read
\* thread may queue payloads between two tests.
ProcessIncomingData ==
    /\ spc \in {"idle", "poll"}
    /\ IF obj = "alive" /\ QPopOk(input_queue)
       THEN LET payload == QPopValue(input_queue)
                h == CHOOSE r \in {HandlePayload(payload, lastReq)} : TRUE
            IN  /\ events' = events \o h.emit
                /\ lastReq' = h.last
                /\ delivered' = Append(delivered, payload)
                /\ input_queue' = QPopRest(input_queue)
                /\ spc' = AfterPayload(payload)
       ELSE /\ spc' = "idle"
            /\ UNCHANGED <<events, lastReq, delivered, input_queue>>

\* ECUConnector::GetApiVersion followed by the transport's Send
CodecGetApiVersion ==
    /\ phase = "call"
    /\ scen.op = "apiver"
    /\ ConnBecomes(GetApiVersion(Conn, ConnIsConnected))
    /\ phase' = "sent"
    /\ UNCHANGED <<threadVars, rxVars, wframe, written, tx, dev, scen,
                   startVars, queueVars, ctorVars, panel>>

\* the owner polls the connector once the echoed bytes have been processed;
\* the run is over when the call has returned
CodecPoll ==
    /\ phase = "done"
    /\ ProcessIncomingData
    /\ phase' = IF spc' = "idle" THEN "polled" ELSE "done"
    /\ UNCHANGED <<running, rpc, wpc, input_buffer, rx, validated, lastStep, pops,
                   txVars, dev, scen, startVars, queueVars, ctorVars,
                   panelVars>>

CodecLoopNext ==
    \/ CodecSend
    \/ CodecSetAll
    \/ CodecGetApiVersion
    \/ CodecFeed
    \/ CodecDeclined
    \/ CodecProcess
    \/ CodecPoll

\* the loopback scenarios: every codec scenario, and the get_api_version request
LoopInputs == CodecInputs \cup {[op |-> "apiver", version |-> DriverVersion]}

LoopInit ==
    /\ TransportInit
    /\ scen \in LoopInputs
    /\ phase = "call"

SpecLoop == LoopInit /\ [][CodecLoopNext]_vars

\* C18: sending the get_api_version request with driver version 1, feeding the
\* transmitted frame bytes back into the read path and decoding the delivered
\* payload yields exactly one api-version result, with value 1.
C18_ApiVersionLoopback ==
    (scen.op = "apiver" /\ phase = "polled")
        => /\ sent = <<WireFrame(<<CmdApiVersion, scen.version>>)>>
           /\ delivered = <<<<CmdApiVersion, scen.version>>>>
           /\ events = <<[sig |-> "ApiVersionReceived", version |-> scen.version]>>

C18_Witness ==
    /\ scen.op = "apiver"
    /\ phase = "polled"
    /\ Len(sent) = 1
    /\ Len(events) = 1
    /\ events[1].version = 1

\* ---------------------------------------------------------------------------

\* ---------------------------------------------------------------------------
\* SpecDecode: requests, arriving responses and polls on a connected connector
\* ---------------------------------------------------------------------------

MaxRequests == 1
MaxArrivals == 2

\* encoder counts the firmware may report
EncVals == {0, 42, 0 - 2, 16777216, 16777217, 2147483647, 0 - 2147483647}

ImuBody == [i \in 1..52 |-> i]

\* get_all_encoders responses the firmware may send: four counts each
AllEncVals ==
    {<<42, 0 - 2, 16777216, 0 - 2147483647>>,
     <<0 - 1, 0 - 256, 0 - 65536, 0 - 16777216>>,
     <<16777217, 0, 0, 0>>}

AllEncodersPayload(v) ==
    <<5>> \o BigEndian32(v[1]) \o BigEndian32(v[2])
         \o BigEndian32(v[3]) \o BigEndian32(v[4])

DecodePayloads ==
    {<<4>> \o BigEndian32(v) : v \in EncVals}
    \cup {<<4>> \o BigEndian32(42) \o <<9>>, <<4, 0, 0, 0>>}
    \cup {<<6>> \o ImuBody, <<6>> \o ImuBody \o <<0>>, <<6>> \o SubSeq(ImuBody, 1, 51)}
    \cup {<<5>> \o [i \in 1..16 |-> IF i % 4 = 0 THEN i ELSE 0]}
    \cup {AllEncodersPayload(v) : v \in AllEncVals}
    \cup {AllEncodersPayload(<<42, 0 - 2, 0, 1>>) \o <<9>>}
    \cup {<<1, 1>>, <<1>>}

\* the motor ids a caller may pass to GetEncoder
MotorArgs == (0 - 1)..4

\* payloads ProcessIncomingData must drop: empty, unknown id, too short
DroppedPayloads ==
    {<<>>, <<2, 0>>, <<7>>, <<4, 0, 0, 0>>, <<1>>, <<5>> \o SubSeq(ImuBody, 1, 15),
     <<6>> \o SubSeq(ImuBody, 1, 51)}

\* payloads decoded whenever they arrive
FollowUps == {<<1, 1>>, <<4>> \o BigEndian32(42)}

\* the payloads arrive in the order of scen.ps: the same payload every time,
\* or a payload to be dropped followed by decodable ones
DecodeScenarios ==
    {[kind |-> "decode", ps |-> [i \in 1..MaxArrivals |-> p]] : p \in DecodePayloads}
    \cup {[kind |-> "decode",
           ps |-> [i \in 1..MaxArrivals |-> IF i = 1 THEN b ELSE g]] :
              b \in DroppedPayloads, g \in FollowUps}

DecodeInit ==
    /\ TransportInit
    /\ scen \in DecodeScenarios
    /\ phase = "idle"

\* ECUConnector::GetEncoder(motorId) followed by the transport's Send
Dec_GetEncoder(motorId) ==
    /\ phase = "idle"
    /\ spc = "idle"
    /\ Len(sent) < MaxRequests
    /\ ConnBecomes(GetEncoder(Conn, ConnIsConnected, motorId))
    /\ UNCHANGED <<threadVars, rxVars, wframe, written, tx, dev, scen, phase,
                   startVars, queueVars, ctorVars, panel>>

\* the frame of the scenario's payload is read from the port and pushed into
\* the ring buffer
Dec_Feed ==
    /\ phase = "idle"
    /\ Len(validated) < MaxArrivals
    /\ LET frame == WireFrame(scen.ps[Len(validated) + 1])
       IN  input_buffer' = CBPush(input_buffer, frame, Len(frame))
    /\ phase' = "process"
    /\ UNCHANGED <<threadVars, input_queue, rx, validated, delivered, lastStep,
                   pops, txVars, dev, scen, startVars, queueVars, ctorVars,
                   connVars, panelVars>>

\* one iteration of ProcessBuffer over the bytes just pushed
Dec_Process ==
    /\ phase = "process"
    /\ ProcessBufferApply
    /\ phase' = IF LoopsAgain(ProcessBufferStep(input_buffer).kind)
                THEN "process" ELSE "idle"
    /\ UNCHANGED <<threadVars, rx, delivered, txVars, dev, scen,
                   startVars, queueVars, ctorVars, connVars, panelVars>>

\* the poll timer fires, or the call under way tests the queue again
Dec_Poll ==
    /\ ProcessIncomingData
    /\ UNCHANGED <<running, rpc, wpc, input_buffer, rx, validated, lastStep, pops,
                   txVars, dev, scen, phase, startVars, queueVars, ctorVars,
                   panelVars>>

DecodeNext ==
    \/ \E m \in MotorArgs : Dec_GetEncoder(m)
    \/ Dec_Feed
    \/ Dec_Process
    \/ Dec_Poll

SpecDecode == DecodeInit /\ [][DecodeNext]_vars

\* the signed 32-bit big-endian value of payload[1..4], two's complement
SignedBigEndian(payload) ==
    IF At(payload, 1) >= 128
    THEN 0 - ((255 - At(payload, 1)) * 16777216 + (255 - At(payload, 2)) * 65536
              + (255 - At(payload, 3)) * 256 + (255 - At(payload, 4))) - 1
    ELSE At(payload, 1) * 16777216 + At(payload, 2) * 65536
         + At(payload, 3) * 256 + At(payload, 4)

\* the float f has exactly the integer value v
FloatIs(f, v) ==
    /\ Abs(v) % (2 ^ f.exp) = 0
    /\ Abs(v) \div (2 ^ f.exp) = f.mant
    /\ (v # 0 => f.neg = (v < 0))

IsEncoderPayload(payload) == Len(payload) >= 5 /\ At(payload, 0) = 4
IsEncoderEvent(e) == e.sig = "EncoderValueUpdated"

\* C19: every inbound payload whose first byte is 0x04 and whose length is at
\* least 5 is decoded to the signed 32-bit big-endian value of payload[1..4]
\* and reported as an encoder value, whatever requests were or were not issued
\* before it arrived.
C19_EncoderAlwaysReported ==
    LET got == SelectSeq(delivered, IsEncoderPayload)
        evs == SelectSeq(events, IsEncoderEvent)
    IN  /\ Len(evs) = Len(got)
        /\ \A i \in 1..Len(evs) : FloatIs(evs[i].value, SignedBigEndian(got[i]))

\* the fixed field order of the get_imu response
ImuFieldOrder ==
    <<"accel_x", "accel_y", "accel_z", "gyro_x", "gyro_y", "gyro_z",
      "mag_x", "mag_y", "mag_z", "quat_w", "quat_x", "quat_y", "quat_z">>

\* the little-endian 32-bit word at a payload offset, most significant byte first
LittleEndianWord(payload, offset) ==
    <<At(payload, offset + 3), At(payload, offset + 2),
      At(payload, offset + 1), At(payload, offset)>>

IsImuPayload(payload) == Len(payload) >= 53 /\ At(payload, 0) = 6
IsImuEvent(e) == e.sig = "ImuDataReceived"

\* C20: for an inbound payload with id 0x06 and length at least 53, sample
\* field k (k = 0..12), in the fixed order accel x,y,z, gyro x,y,z, mag x,y,z,
\* quat w,x,y,z, is the little-endian 32-bit word at payload offset 1 + 4k:
\* the decoder performs no axis remapping.
C20_ImuFixedOrder ==
    LET got == SelectSeq(delivered, IsImuPayload)
        evs == SelectSeq(events, IsImuEvent)
    IN  /\ Len(evs) = Len(got)
        /\ \A i \in 1..Len(evs) : \A k \in 0..12 :
              evs[i].data[ImuFieldOrder[k + 1]] = LittleEndianWord(got[i], 1 + 4 * k)

\* the minimum length ProcessIncomingData requires for a known id
MinLenOf(id) ==
    IF id = 1 THEN 2 ELSE IF id = 4 THEN 5 ELSE IF id = 5 THEN 17 ELSE 53

\* empty, unknown id, or shorter than the minimum length of its id
Undecodable(payload) ==
    \/ Len(payload) = 0
    \/ At(payload, 0) \notin {1, 4, 5, 6}
    \/ Len(payload) < MinLenOf(At(payload, 0))

Decodable(payload) == ~Undecodable(payload)

\* C21: an inbound payload that is empty, has an id other than
\* 0x01/0x04/0x05/0x06 or is shorter than the minimum length of its id
\* produces no signal and changes no connector state, and it does not stop
\* processing: the payload is consumed, the call goes on to test the queue
\* again, and the transport stays up.
C21_UndecodableDropped ==
    [][(Dec_Poll /\ obj = "alive" /\ QPopOk(input_queue)
          /\ Undecodable(QPopValue(input_queue)))
        => /\ events' = events
           /\ lastReq' = lastReq
           /\ input_queue' = QPopRest(input_queue)
           /\ delivered' = Append(delivered, QPopValue(input_queue))
           /\ spc' = "poll"
           /\ obj' = obj /\ fd' = fd /\ running' = running]_vars

\* an empty payload and a decodable one behind it were polled together
C21_Witness ==
    /\ delivered = <<<<>>, <<1, 1>>>>
    /\ events = <<[sig |-> "ApiVersionReceived", version |-> 1]>>
    /\ input_queue = <<>>
    /\ obj = "alive"

\* the signed 32-bit big-endian value of payload[offset .. offset + 3]
SignedBigEndianAt(payload, offset) ==
    IF At(payload, offset) >= 128
    THEN 0 - ((255 - At(payload, offset)) * 16777216
              + (255 - At(payload, offset + 1)) * 65536
              + (255 - At(payload, offset + 2)) * 256
              + (255 - At(payload, offset + 3))) - 1
    ELSE At(payload, offset) * 16777216 + At(payload, offset + 1) * 65536
         + At(payload, offset + 2) * 256 + At(payload, offset + 3)

IsAllEncodersPayload(payload) == Len(payload) >= 17 /\ At(payload, 0) = 5
IsAllEncodersEvent(e) == e.sig = "EncoderValuesUpdated"

\* C22: for an inbound payload with id 0x05 and length at least 17, the four
\* reported encoder values are, in motor order i = 0..3, the signed 32-bit
\* big-endian values of payload[1+4i .. 4+4i], for every byte content,
\* negative values included.
C22_AllEncodersExact ==
    LET got == SelectSeq(delivered, IsAllEncodersPayload)
        evs == SelectSeq(events, IsAllEncodersEvent)
    IN  /\ Len(evs) = Len(got)
        /\ \A n \in 1..Len(evs) :
              /\ DOMAIN evs[n].values = 1..4
              /\ \A i \in 0..3 :
                    FloatIs(evs[n].values[i + 1],
                            SignedBigEndianAt(got[n], 1 + 4 * i))

\* ---------------------------------------------------------------------------
\* SpecCommand: one connector with its control panel; the connection is made,
\* fails or is closed, a command method is called, the update timer fires
\* ---------------------------------------------------------------------------

MaxConnEvents == 2
MaxCmdFrames == 2

\* speeds in RPM whose product with 100 fits an int32_t
RpmVals == {0, 1, 0 - 1, 200, 0 - 200, 21474836, 0 - 21474836}

SpeedLists ==
    {<<0, 0, 0, 0>>, <<1, 0 - 1, 200, 0 - 200>>,
     <<21474836, 0 - 21474836, 0 - 1, 1>>,
     <<>>, <<1, 200, 0 - 1>>, <<1, 200, 0 - 1, 0, 1>>}

CommandInputs ==
    {[kind |-> "command", op |-> "setmotor", m |-> m, rpm |-> r] :
        m \in MotorArgs, r \in RpmVals}
    \cup {[kind |-> "command", op |-> "setall", speeds |-> v] : v \in SpeedLists}
    \cup {[kind |-> "command", op |-> "getenc", m |-> m] : m \in MotorArgs}
    \cup {[kind |-> "command", op |-> o] : o \in {"getall", "apiver", "imu"}}

IsConnectionChanged(e) == e.sig = "ConnectionChanged"

\* mutant: the slot starts the timer whatever the connection state is
OnConnectionChangedStart(pn, connected) == [pn EXCEPT !.timer = TRUE]

\* ControlPanel::OnConnectionChanged: updateTimer_ runs while connected
OnConnectionChanged(pn, connected) == [pn EXCEPT !.timer = connected]

\* ECUConnector::Connect while not connected, the constructor succeeding: the
\* new transport is started and ConnectionChanged(true) reaches the panel
Connect_Ok ==
    /\ spc = "idle"
    /\ ~ConnIsConnected
    /\ Len(SelectSeq(events, IsConnectionChanged)) < MaxConnEvents
    /\ obj' = "alive"
    /\ fd' = "configured"
    /\ err' = ""
    /\ running' = TRUE
    /\ rpc' = "test"
    /\ wpc' = "test"
    /\ input_buffer' = NewCircularBuffer(InputBufferSize)
    /\ input_queue' = <<>>
    /\ output_queue' = <<>>
    /\ events' = Append(events, [sig |-> "ConnectionChanged", connected |-> TRUE])
    /\ panel' = OnConnectionChanged(panel, TRUE)
    /\ UNCHANGED <<spc, rx, validated, delivered, lastStep, pops, wframe,
                   written, tx, sent, dev, scen, phase, startVars, queueVars,
                   lastReq, currentSpeeds>>

\* ECUConnector::Connect, the constructor throwing: transport_ stays empty,
\* ErrorOccurred and ConnectionChanged(false) are emitted
Connect_Fail ==
    /\ spc = "idle"
    /\ ~ConnIsConnected
    /\ Len(SelectSeq(events, IsConnectionChanged)) < MaxConnEvents
    /\ err' \in {ErrOpen, ErrGetAttr, ErrSetAttr}
    /\ obj' = "failed"
    /\ fd' = "closed"
    /\ events' = events \o <<[sig |-> "ErrorOccurred", message |-> err'],
                            [sig |-> "ConnectionChanged", connected |-> FALSE]>>
    /\ panel' = OnConnectionChanged(panel, FALSE)
    /\ UNCHANGED <<threadVars, rxVars, txVars, dev, scen, phase, startVars,
                   queueVars, lastReq, currentSpeeds>>

\* ECUConnector::Disconnect up to the first join: with a transport, Stop()
\* clears running_ and goes on to wait for the read thread; without one the
\* call stops the poll timer, emits ConnectionChanged(false) and returns
Disconnect ==
    /\ spc = "idle"
    /\ Len(SelectSeq(events, IsConnectionChanged)) < MaxConnEvents
    /\ IF obj = "alive"
       THEN /\ running' = FALSE
            /\ spc' = "djoinR"
            /\ UNCHANGED <<events, panel>>
       ELSE /\ events' = Append(events, [sig |-> "ConnectionChanged",
                                         connected |-> FALSE])
            /\ panel' = OnConnectionChanged(panel, FALSE)
            /\ UNCHANGED <<running, spc>>
    /\ UNCHANGED <<rpc, wpc, rxVars, txVars, dev, scen, phase, startVars,
                   queueVars, ctorVars, lastReq, currentSpeeds>>

\* Stop() inside Disconnect: read_thread_.join() returns once the read
\* thread has left its loop
Disc_JoinR ==
    /\ spc = "djoinR"
    /\ rpc \in {"none", "exited"}
    /\ rpc' = "none"
    /\ spc' = "djoinW"
    /\ UNCHANGED <<running, wpc, rxVars, txVars, envVars>>

\* Stop() inside Disconnect: write_thread_.join() returns once the write
\* thread has left its loop
Disc_JoinW ==
    /\ spc = "djoinW"
    /\ wpc \in {"none", "exited"}
    /\ wpc' = "none"
    /\ spc' = "reset"
    /\ UNCHANGED <<running, rpc, rxVars, txVars, envVars>>

\* Disconnect after Stop(): transport_.reset() destroys the transport with
\* its buffer and queues, the poll timer is stopped, ConnectionChanged(false)
\* reaches the panel
Disc_Reset ==
    /\ spc = "reset"
    /\ obj' = "none"
    /\ fd' = "closed"
    /\ input_buffer' = NewCircularBuffer(InputBufferSize)
    /\ input_queue' = <<>>
    /\ output_queue' = <<>>
    /\ events' = Append(events, [sig |-> "ConnectionChanged", connected |-> FALSE])
    /\ panel' = OnConnectionChanged(panel, FALSE)
    /\ spc' = "idle"
    /\ UNCHANGED <<running, rpc, wpc, rx, validated, delivered, lastStep, pops,
                   wframe, written, tx, sent, dev, scen, phase, startVars,
                   queueVars, err, lastReq, currentSpeeds>>

\* what every command action leaves alone
CmdFrame ==
    /\ phase' = "done"
    /\ UNCHANGED <<threadVars, rxVars, wframe, written, tx, dev, scen,
                   startVars, queueVars, ctorVars, panel>>

Cmd_SetMotorSpeed ==
    /\ spc = "idle"
    /\ phase = "call"
    /\ scen.op = "setmotor"
    /\ ConnBecomes(SetMotorSpeed(Conn, ConnIsConnected, scen.m, scen.rpm))
    /\ CmdFrame

Cmd_SetAllMotorsSpeed ==
    /\ spc = "idle"
    /\ phase = "call"
    /\ scen.op = "setall"
    /\ ConnBecomes(SetAllMotorsSpeed(Conn, ConnIsConnected, scen.speeds))
    /\ CmdFrame

Cmd_GetEncoder ==
    /\ spc = "idle"
    /\ phase = "call"
    /\ scen.op = "getenc"
    /\ ConnBecomes(GetEncoder(Conn, ConnIsConnected, scen.m))
    /\ CmdFrame

Cmd_GetAllEncoders ==
    /\ spc = "idle"
    /\ phase = "call"
    /\ scen.op = "getall"
    /\ ConnBecomes(GetAllEncoders(Conn, ConnIsConnected))
    /\ CmdFrame

Cmd_GetApiVersion ==
    /\ spc = "idle"
    /\ phase = "call"
    /\ scen.op = "apiver"
    /\ ConnBecomes(GetApiVersion(Conn, ConnIsConnected))
    /\ CmdFrame

Cmd_GetImu ==
    /\ spc = "idle"
    /\ phase = "call"
    /\ scen.op = "imu"
    /\ ConnBecomes(GetImu(Conn, ConnIsConnected))
    /\ CmdFrame

\* updateTimer_ fires: ControlPanel::OnTimerTimeout up to the return of
\* SetAllMotorsSpeed, its first command; each command locks the output queue
\* for its own Send, so the write thread may take frames between two of them
OnTimerTimeout ==
    /\ spc = "idle"
    /\ panel.timer
    /\ Len(sent) < MaxCmdFrames
    /\ ConnBecomes(SetAllMotorsSpeed(Conn, ConnIsConnected, panel.speeds))
    /\ spc' = IF ConnIsConnected THEN "getall" ELSE "idle"
    /\ UNCHANGED <<running, rpc, wpc, rxVars, wframe, written, tx, dev, scen,
                   phase, startVars, queueVars, ctorVars, panel>>

\* OnTimerTimeout: connector_->GetAllEncoders()
Timer_GetAllEncoders ==
    /\ spc = "getall"
    /\ ConnBecomes(GetAllEncoders(Conn, ConnIsConnected))
    /\ spc' = "getimu"
    /\ UNCHANGED <<running, rpc, wpc, rxVars, wframe, written, tx, dev, scen,
                   phase, startVars, queueVars, ctorVars, panel>>

\* OnTimerTimeout: connector_->GetImu(), then the handler returns
Timer_GetImu ==
    /\ spc = "getimu"
    /\ ConnBecomes(GetImu(Conn, ConnIsConnected))
    /\ spc' = "idle"
    /\ UNCHANGED <<running, rpc, wpc, rxVars, wframe, written, tx, dev, scen,
                   phase, startVars, queueVars, ctorVars, panel>>

\* ControlPanel::SetPeriodicUpdatesEnabled: the timer is started only while
\* connected and stopped in any case
SetPeriodicUpdatesEnabled(pn, up, enabled) ==
    IF enabled THEN (IF up THEN [pn EXCEPT !.timer = TRUE] ELSE pn)
    ELSE [pn EXCEPT !.timer = FALSE]

\* MainWindow::OnProtocolTesterTabActivated: entering the protocol tester
\* stops the periodic updates and the motors, leaving it resumes the updates
OnProtocolTesterTabActivated(activated) ==
    /\ spc = "idle"
    /\ activated => Len(sent) < MaxCmdFrames
    /\ panel' = SetPeriodicUpdatesEnabled(panel, ConnIsConnected, ~activated)
    /\ ConnBecomes(IF activated /\ ConnIsConnected
                   THEN SetAllMotorsSpeed(Conn, ConnIsConnected, <<0, 0, 0, 0>>)
                   ELSE Conn)
    /\ UNCHANGED <<threadVars, rxVars, wframe, written, tx, dev, scen, phase,
                   startVars, queueVars, ctorVars>>

CommandInit ==
    /\ NoTransport
    /\ scen \in CommandInputs
    /\ phase = "call"

CommandNext ==
    \/ Connect_Ok
    \/ Connect_Fail
    \/ Disconnect
    \/ Disc_JoinR
    \/ Disc_JoinW
    \/ Disc_Reset
    \/ (~running /\ R_Test)
    \/ (~running /\ W_Test)
    \/ Cmd_SetMotorSpeed
    \/ Cmd_SetAllMotorsSpeed
    \/ Cmd_GetEncoder
    \/ Cmd_GetAllEncoders
    \/ Cmd_GetApiVersion
    \/ Cmd_GetImu
    \/ OnTimerTimeout
    \/ Timer_GetAllEncoders
    \/ Timer_GetImu
    \/ \E activated \in BOOLEAN : OnProtocolTesterTabActivated(activated)

SpecCommand == CommandInit /\ [][CommandNext]_vars

\* the big-endian two's complement bytes of a value inside the int32 range
TwosComplementBE(v) ==
    LET u == IF v < 0 THEN 0 - (v + 1) ELSE v
        b == <<u \div 16777216, (u \div 65536) % 256, (u \div 256) % 256, u % 256>>
    IN  IF v < 0 THEN [i \in 1..4 |-> 255 - b[i]] ELSE b

\* the payload of set_all_motors_speed for four speeds
AllSpeedsPayload(r) ==
    <<3>> \o TwosComplementBE(r[1] * 100) \o TwosComplementBE(r[2] * 100)
         \o TwosComplementBE(r[3] * 100) \o TwosComplementBE(r[4] * 100)

\* C23: on a connected connector SetMotorSpeed(m, rpm) with m in 0..3 enqueues
\* the frame of the payload [0x02, m, b3, b2, b1, b0] and
\* SetAllMotorsSpeed([r0..r3]) that of [0x03, 4 x (b3, b2, b1, b0)], each
\* 4-byte field being the big-endian two's complement of rpm x 100 (negative
\* rpm included); a motor id outside 0..3 or a speed list whose length is not
\* 4 enqueues nothing and changes no stored speed.
C23_SpeedCommands ==
    [][/\ (Cmd_SetMotorSpeed /\ ConnIsConnected) =>
            IF scen.m \in 0..3
            THEN /\ output_queue' = Append(output_queue,
                        WireFrame(<<2, scen.m>> \o TwosComplementBE(scen.rpm * 100)))
                 /\ currentSpeeds' = [currentSpeeds EXCEPT ![scen.m + 1] = scen.rpm]
            ELSE UNCHANGED <<output_queue, sent, currentSpeeds, events>>
       /\ (Cmd_SetAllMotorsSpeed /\ ConnIsConnected) =>
            IF Len(scen.speeds) = 4
            THEN /\ output_queue' = Append(output_queue,
                        WireFrame(AllSpeedsPayload(scen.speeds)))
                 /\ currentSpeeds' = scen.speeds
            ELSE UNCHANGED <<output_queue, sent, currentSpeeds, events>>]_vars

\* a negative speed was sent to motor 3 of a connected connector
C23_Witness ==
    /\ scen.op = "setmotor"
    /\ scen.m = 3
    /\ scen.rpm = 0 - 200
    /\ phase = "done"
    /\ ConnIsConnected
    /\ output_queue = <<WireFrame(<<2, 3, 255, 255, 177, 224>>)>>
    /\ currentSpeeds = <<0, 0, 0, 0 - 200>>

(***************************************************************************)
(* The reference transport of tools/cpp_app: Send expects the caller's     *)
(* data to start with a placeholder for the length byte.                   *)
(***************************************************************************)
\* if (data.empty()) return;  if (data.size() + 2 > 255) return;
RefSendRejects(data) == Len(data) = 0 \/ Len(data) + 2 > 255

\* data[0] = size + 2; frame = 0xAA, data, crc low, crc high
RefSendFrame(data) ==
    LET d == [data EXCEPT ![1] = U8(Len(data) + 2)]
        crc == CalculateCrc16(d, Len(d))
    IN  <<StartByte>> \o d \o CrcTail(crc)

\* SerialTransport::Send of the reference transport on its output queue q
RefSend(q, data) == IF RefSendRejects(data) THEN q ELSE QPush(q, RefSendFrame(data))

\* C24: Send of an empty payload is a no-op: nothing is enqueued, the
\* outbound queue is unchanged and no TX log callback fires (in the
\* application transport and in the reference transport alike).
C24_EmptySendNoOp ==
    (scen.op = "raw" /\ scen.p = <<>> /\ phase # "call")
        => /\ output_queue = <<>>
           /\ sent = <<>>
           /\ RefSend(output_queue, scen.p) = output_queue

C24_Witness ==
    /\ scen.op = "raw"
    /\ scen.p = <<>>
    /\ phase = "done"
    /\ output_queue = <<>>

\* ---------------------------------------------------------------------------
\* SpecWire: the same payload is sent through an application transport
\* (queue output_queue) and, behind a placeholder byte, through a reference
\* transport (queue queue_)
\* ---------------------------------------------------------------------------
PlaceholderBytes == {0, 170}

WireInputs ==
    {[kind |-> "wire", p |-> p, x |-> x] :
        p \in (Payloads \cup LongPayloads) \ {<<>>}, x \in PlaceholderBytes}

WireInit ==
    /\ TransportInit
    /\ scen \in WireInputs
    /\ phase = "call"

\* application Send(p)
Wire_AppSend ==
    /\ phase \in {"call", "ref"}
    /\ output_queue' = Send(output_queue, scen.p)
    /\ sent' = IF SendRejects(scen.p) THEN sent ELSE Append(sent, SendFrame(scen.p))
    /\ phase' = IF phase = "call" THEN "app" ELSE "both"
    /\ UNCHANGED <<threadVars, rxVars, wframe, written, tx, dev, scen,
                   startVars, queueVars, ctorVars, connVars, panelVars>>

\* reference Send([x] ++ p)
Wire_RefSend ==
    /\ phase \in {"call", "app"}
    /\ queue_' = RefSend(queue_, <<scen.x>> \o scen.p)
    /\ phase' = IF phase = "call" THEN "ref" ELSE "both"
    /\ UNCHANGED <<threadVars, rxVars, txVars, dev, scen, startVars,
                   pidx, cstate, res, popped, wcalls, ctorVars, connVars,
                   panelVars>>

WireNext == Wire_AppSend \/ Wire_RefSend

SpecWire == WireInit /\ [][WireNext]_vars

\* C25: for every payload p of length 1..255 and any placeholder byte x,
\* application Send(p) and reference Send([x] ++ p) have the same outcome:
\* both enqueue the byte-identical frame, or both enqueue nothing.
C25_SameWire ==
    (phase = "both" /\ Len(scen.p) >= 1 /\ Len(scen.p) <= 255)
        => output_queue = queue_

\* ---------------------------------------------------------------------------
\* SpecPanel: the user works the control panel (check box, sliders, joystick,
\* stop button, connect button) while the update timer fires
\* ---------------------------------------------------------------------------

\* slider positions the user moves to, and the motors whose sliders are moved
SliderVals == {0, 50}
MovedMotors == {0, 3}

\* joystick positions (x, y) in halves: forward, turn right, released
JoyPositions == {<<0, 0 - 2>>, <<2, 0>>, <<0, 0>>}

AllFour(v) == <<v, v, v, v>>

\* allMotorsSlider_->setValue(v): valueChanged is emitted on a change only
\* and runs OnAllMotorsSliderChanged
SetAllSlider(pn, v) ==
    IF v = pn.allSlider THEN pn
    ELSE IF pn.allSame
         THEN [pn EXCEPT !.allSlider = v, !.sliders = AllFour(v),
                         !.speeds = AllFour(v)]
         ELSE [pn EXCEPT !.allSlider = v]

\* motorSliders_[i]->setValue(v) with signals enabled: the lambda of SetupUi
\* stores the value unless "All Same" is checked
SetMotorSlider(pn, i, v) ==
    IF v = pn.sliders[i + 1] THEN pn
    ELSE IF ~pn.allSame
         THEN [pn EXCEPT !.sliders[i + 1] = v, !.speeds[i + 1] = v]
         ELSE [pn EXCEPT !.sliders[i + 1] = v]

\* static_cast<int> of a quotient: truncation towards zero
TruncDiv(a, b) == IF a >= 0 THEN a \div b ELSE 0 - ((0 - a) \div b)

\* qBound(lo, v, hi)
QBound(lo, v, hi) == IF v < lo THEN lo ELSE IF v > hi THEN hi ELSE v

\* ControlPanel::OnJoystickPositionChanged(x, y), x = xh / 2, y = yh / 2
JoystickMoved(pn, xh, yh) ==
    LET leftSpeed == QBound(0 - pn.maxRpm,
                            TruncDiv((0 - yh + xh) * pn.maxRpm, 2), pn.maxRpm)
        rightSpeed == QBound(0 - pn.maxRpm,
                             TruncDiv((0 - yh - xh) * pn.maxRpm, 2), pn.maxRpm)
        sp == <<leftSpeed, leftSpeed, rightSpeed, rightSpeed>>
    IN  [pn EXCEPT !.speeds = sp, !.allSame = FALSE, !.sliders = sp]

\* the panel after ControlPanel::OnStopClicked
StopClicked(pn) ==
    LET p0 == SetAllSlider(pn, 0)
        p1 == SetMotorSlider(p0, 0, 0)
        p2 == SetMotorSlider(p1, 1, 0)
        p3 == SetMotorSlider(p2, 2, 0)
        p4 == SetMotorSlider(p3, 3, 0)
    IN  [p4 EXCEPT !.speeds = AllFour(0)]

\* what the panel handlers that do not touch the connector leave alone
PanelFrame ==
    UNCHANGED <<threadVars, rxVars, txVars, dev, scen, phase, startVars,
                queueVars, ctorVars, connVars, currentSpeeds>>

\* the user clicks the "All Same" check box (no slot is connected to it)
P_ToggleAllSame ==
    /\ spc = "idle"
    /\ panel' = [panel EXCEPT !.allSame = ~@]
    /\ PanelFrame

\* the user moves the "All" slider
P_AllSlider(v) ==
    /\ spc = "idle"
    /\ v # panel.allSlider
    /\ panel' = SetAllSlider(panel, v)
    /\ PanelFrame

\* the user moves the slider of motor i
P_MotorSlider(i, v) ==
    /\ spc = "idle"
    /\ v # panel.sliders[i + 1]
    /\ panel' = SetMotorSlider(panel, i, v)
    /\ PanelFrame

\* the virtual joystick reports a new position
P_Joystick(pos) ==
    /\ spc = "idle"
    /\ panel' = JoystickMoved(panel, pos[1], pos[2])
    /\ panel' # panel
    /\ PanelFrame

\* the user clicks STOP ALL
P_Stop ==
    /\ spc = "idle"
    /\ Len(sent) < MaxCmdFrames
    /\ panel' = StopClicked(panel)
    /\ ConnBecomes(SetAllMotorsSpeed(Conn, ConnIsConnected, StopClicked(panel).speeds))
    /\ UNCHANGED <<threadVars, rxVars, wframe, written, tx, dev, scen, phase,
                   startVars, queueVars, ctorVars>>

PanelInit ==
    /\ NoTransport
    /\ scen = [kind |-> "panel"]
    /\ phase = "panel"

\* ControlPanel::OnConnectClicked: Disconnect when connected, Connect if not
PanelNext ==
    \/ Connect_Ok
    \/ (ConnIsConnected /\ Disconnect)
    \/ Disc_JoinR
    \/ Disc_JoinW
    \/ Disc_Reset
    \/ (~running /\ R_Test)
    \/ (~running /\ W_Test)
    \/ P_ToggleAllSame
    \/ \E v \in SliderVals : P_AllSlider(v)
    \/ \E i \in MovedMotors, v \in SliderVals : P_MotorSlider(i, v)
    \/ \E pos \in JoyPositions : P_Joystick(pos)
    \/ P_Stop
    \/ OnTimerTimeout
    \/ Timer_GetAllEncoders
    \/ Timer_GetImu

SpecPanel == PanelInit /\ [][PanelNext]_vars

\* C26: whenever "All Same" is checked, the four speeds the periodic
\* set_all_motors_speed command sends are all equal to the current value of
\* the "All" slider, after any sequence of check box toggles, slider moves,
\* joystick moves and stop clicks.
C26_AllSameSendsSlider ==
    [][(OnTimerTimeout /\ panel.allSame /\ ConnIsConnected)
          => /\ currentSpeeds' = AllFour(panel.allSlider)
             /\ output_queue' = Append(output_queue,
                    WireFrame(AllSpeedsPayload(AllFour(panel.allSlider))))]_vars

(***************************************************************************)
(* The discard cases of frame extraction (under SpecRx).                   *)
(***************************************************************************)
\* at least two bytes are buffered and the oldest is not 0xAA
NoSync(cb) == CBSize(cb) >= 2 /\ CBPeek(cb, 0) # 170

\* the oldest byte is 0xAA and the length byte is below 3
BadLength(cb) == CBSize(cb) >= 2 /\ CBPeek(cb, 0) = 170 /\ CBPeek(cb, 1) < 3

\* the 1 + length bytes of the candidate at the head of the buffer
Candidate(cb) == SubSeq(CBContents(cb), 1, 1 + CBPeek(cb, 1))

\* a candidate is fully buffered
FullCandidate(cb) ==
    /\ CBSize(cb) >= 2
    /\ CBPeek(cb, 0) = 170
    /\ CBPeek(cb, 1) >= 3
    /\ CBSize(cb) >= 1 + CBPeek(cb, 1)

\* the CRC the candidate carries (low byte first) is the CRC-16/MODBUS of
\* its length byte and payload
CrcMatches(cb) ==
    LET f == Candidate(cb)
    IN  f[Len(f) - 1] + 256 * f[Len(f)] = ModbusCrc(SubSeq(f, 2, Len(f) - 2))

CrcMismatch(cb) == FullCandidate(cb) /\ ~CrcMatches(cb)

\* C27: in each of the three discard cases (oldest byte not 0xAA; length
\* byte < 3; CRC mismatch on a fully buffered candidate) the extraction step
\* removes exactly one byte, the oldest, from the ring buffer, never the
\* whole candidate, and pushes nothing to the inbound queue.
C27_DiscardOneByte ==
    [][(R_Process /\ (NoSync(input_buffer) \/ BadLength(input_buffer)
                        \/ CrcMismatch(input_buffer)))
          => /\ CBSize(input_buffer') = CBSize(input_buffer) - 1
             /\ CBContents(input_buffer') = Tail(CBContents(input_buffer))
             /\ input_queue' = input_queue
             /\ validated' = validated
             /\ pops' = Append(pops, 1)]_vars

C27_Witness ==
    /\ scen.kind = "corrupt"
    /\ Len(scen.p) = 2
    /\ rx = <<>>
    /\ lastStep = "crcfail"
    /\ pops = <<1>>
    /\ CBContents(input_buffer) = Tail(scen.stream)
    /\ CrcMismatch(input_buffer) = FALSE
    /\ NoSync(input_buffer)
    /\ validated = <<>>
    /\ input_queue = <<>>

(***************************************************************************)
(* The accepting case of frame extraction (under SpecRx).                  *)
(***************************************************************************)
\* the bytes between the length byte and the CRC of the candidate
Between(cb) == SubSeq(CBContents(cb), 3, CBPeek(cb, 1) - 1)

\* the buffered bytes after the candidate
After(cb) == SubSeq(CBContents(cb), 2 + CBPeek(cb, 1), CBSize(cb))

\* C28: when a fully buffered candidate's CRC matches, the extraction step
\* pushes exactly one payload, the len_byte - 3 bytes between the length
\* byte and the CRC (empty when len_byte = 3), removes exactly 1 + len_byte
\* bytes, leaves the later bytes in place and in order and goes on with the
\* same pass; two frames back to back are both delivered, in order.
C28_AcceptOneFrame ==
    /\ [][(R_Process /\ FullCandidate(input_buffer) /\ CrcMatches(input_buffer))
            => /\ Len(Between(input_buffer)) = CBPeek(input_buffer, 1) - 3
               /\ input_queue' = Append(input_queue, Between(input_buffer))
               /\ validated' = Append(validated, Between(input_buffer))
               /\ CBSize(input_buffer')
                    = CBSize(input_buffer) - (1 + CBPeek(input_buffer, 1))
               /\ CBContents(input_buffer') = After(input_buffer)
               /\ rpc' = "process"]_vars
    /\ []((scen.kind \in {"two", "empty"} /\ RxDone)
            => /\ validated = <<scen.p, scen.q>>
               /\ CBSize(input_buffer) = 0)

C28_Witness ==
    /\ scen.kind = "empty"
    /\ rx = <<>>
    /\ rpc = "process"
    /\ lastStep = "accept"
    /\ pops = <<4>>
    /\ validated = <<<<>>>>
    /\ input_queue = <<<<>>>>
    /\ CBContents(input_buffer) = WireFrame(scen.q)
    /\ FullCandidate(input_buffer)
    /\ CrcMatches(input_buffer)

(***************************************************************************)
(* SpecFifo: any sequence of Push (at most capacity bytes each), Pop and   *)
(* Clear on a ring buffer of capacity RingCap.  The bytes pushed are the   *)
(* next bytes of a stream of distinct values.                              *)
(***************************************************************************)
\* CircularBuffer::Clear
CBClear(cb) == [cb EXCEPT !.head_ = 0, !.tail_ = 0, !.count_ = 0]

FifoStream == RingStream(2 * RingCap + MaxExtra)

\* the arguments of Pop: below, at and above the occupancy
PopArgs == 0..(RingCap + 1)

FifoFrame ==
    UNCHANGED <<threadVars, input_queue, validated, delivered, lastStep, pops,
                txVars, dev, scen, phase, startVars, queueVars, ctorVars,
                connVars, panelVars>>

\* Push(data, n) with the next n bytes of the stream, n <= capacity
Buf_Push(n) ==
    /\ phase = "fifo"
    /\ n <= Len(rx)
    /\ n <= input_buffer.size_
    /\ input_buffer' = CBPush(input_buffer, SubSeq(rx, 1, n), n)
    /\ rx' = SubSeq(rx, n + 1, Len(rx))
    /\ FifoFrame

\* Pop(n)
Buf_Pop(n) ==
    /\ phase = "fifo"
    /\ input_buffer' = CBPop(input_buffer, n)
    /\ rx' = rx
    /\ FifoFrame

\* Clear()
Buf_Clear ==
    /\ phase = "fifo"
    /\ input_buffer' = CBClear(input_buffer)
    /\ rx' = rx
    /\ FifoFrame

FifoInit ==
    /\ StartInit
    /\ CtorDone
    /\ running = FALSE
    /\ rpc = "none"
    /\ wpc = "none"
    /\ spc = "idle"
    /\ input_buffer = NewCircularBuffer(RingCap)
    /\ input_queue = <<>>
    /\ output_queue = <<>>
    /\ wframe = <<>>
    /\ written = 0
    /\ tx = <<>>
    /\ dev = "ok"
    /\ sent = <<>>
    /\ validated = <<>>
    /\ delivered = <<>>
    /\ lastStep = "none"
    /\ pops = <<>>
    /\ scen = [kind |-> "fifo", stream |-> FifoStream]
    /\ rx = scen.stream
    /\ phase = "fifo"

FifoNext ==
    \/ \E n \in 0..RingCap : Buf_Push(n)
    \/ \E n \in PopArgs : Buf_Pop(n)
    \/ Buf_Clear

SpecFifo == FifoInit /\ [][FifoNext]_vars

\* the last c elements of sequence q (all of q when it has no more than c)
KeepLast(q, c) == IF Len(q) <= c THEN q ELSE SubSeq(q, Len(q) - c + 1, Len(q))

\* sequence q without its first k elements
DropFirst(q, k) == SubSeq(q, k + 1, Len(q))

\* the abstract byte sequence the buffer stands for: Peek(0..Size()-1)
Retained == CBContents(input_buffer)

\* C29: the ring buffer refines a bounded FIFO byte sequence.  Size() and
\* Peek(0..Size()-1) start as the empty sequence; a Push of at most capacity
\* bytes appends them and keeps only the last capacity bytes; Pop(n) removes
\* the first min(n, size) bytes; Clear empties the sequence.
C29_RefinesFifo ==
    /\ (rx = FifoStream) => (CBSize(input_buffer) = 0 /\ Retained = <<>>)
    /\ CBSize(input_buffer) = Len(Retained)
    /\ CBSize(input_buffer) <= RingCap
    /\ [][\A n \in 0..RingCap :
            Buf_Push(n) => Retained' = KeepLast(Retained \o SubSeq(rx, 1, n),
                                                RingCap)]_vars
    /\ [][\A n \in PopArgs :
            Buf_Pop(n) => Retained' = DropFirst(Retained, Min(n, Len(Retained)))]_vars
    /\ [][Buf_Clear => Retained' = <<>>]_vars

C29_Witness ==
    /\ phase = "fifo"
    /\ Len(rx) = Len(FifoStream) - (RingCap + 3)
    /\ input_buffer.head_ = 3
    /\ input_buffer.tail_ = 3
    /\ CBSize(input_buffer) = RingCap
    /\ Retained = SubSeq(FifoStream, 4, RingCap + 3)

(***************************************************************************)
(* Commands and the update timer while not connected (under SpecCommand).  *)
(***************************************************************************)
\* one of the six command methods is called
CommandCall ==
    \/ Cmd_SetMotorSpeed
    \/ Cmd_SetAllMotorsSpeed
    \/ Cmd_GetEncoder
    \/ Cmd_GetAllEncoders
    \/ Cmd_GetApiVersion
    \/ Cmd_GetImu

\* C30: while the connector is not connected every command method is a
\* no-op (no frame enqueued, stored speeds and pending encoder motor id
\* unchanged, no SpeedSet emitted); a disconnect leaves the update timer
\* stopped, the timer never runs while not connected, and frames are
\* enqueued only while connected.
C30_DisconnectedNoOp ==
    /\ [][(CommandCall /\ ~ConnIsConnected)
            => UNCHANGED <<output_queue, sent, currentSpeeds, lastReq, events>>]_vars
    /\ [][((Disconnect /\ obj # "alive") \/ Disc_Reset) => ~panel'.timer]_vars
    /\ [](~ConnIsConnected => ~panel.timer)
    /\ [][(sent' # sent \/ Len(output_queue') > Len(output_queue))
            => ConnIsConnected]_vars

\* SetAllMotorsSpeed with four speeds was called after a connect and a
\* disconnect: nothing was sent or stored and the timer is stopped
C30_Witness ==
    /\ scen.op = "setall"
    /\ scen.speeds = <<1, 0 - 1, 200, 0 - 200>>
    /\ phase = "done"
    /\ ~ConnIsConnected
    /\ events = <<[sig |-> "ConnectionChanged", connected |-> TRUE],
                  [sig |-> "ConnectionChanged", connected |-> FALSE]>>
    /\ sent = <<>>
    /\ output_queue = <<>>
    /\ currentSpeeds = <<0, 0, 0, 0>>
    /\ ~panel.timer

(***************************************************************************)
(* Liveness of frame extraction: garbage followed by one valid frame, with *)
(* a read thread that keeps being scheduled.  The streams are finite, so   *)
(* once rx is empty no further byte arrives.                               *)
(***************************************************************************)
\* what may precede the frame: bytes that are no marker, a marker with a bad
\* length, a frame cut short, a whole frame with a flipped payload byte, and
\* markers followed by a length that announces more bytes than ever arrive
GarbagePrefixes ==
    {<<0>>, <<255, 16>>, <<170, 0>>, <<170, 2, 170>>, <<170, 4, 16>>,
     Corrupt(WireFrame(<<16, 0>>), 1, 255), <<170, 255>>, <<0, 170, 170>>}

GarbageScenarios ==
    {[kind |-> "garbage", g |-> g, p |-> <<>>, q |-> FollowPayload,
      stream |-> g \o WireFrame(FollowPayload)] : g \in GarbagePrefixes}

GarbageInit ==
    /\ StartInit
    /\ CtorDone
    /\ running = FALSE
    /\ rpc = "none"
    /\ wpc = "none"
    /\ spc = "idle"
    /\ input_buffer = NewCircularBuffer(InputBufferSize)
    /\ input_queue = <<>>
    /\ output_queue = <<>>
    /\ wframe = <<>>
    /\ written = 0
    /\ tx = <<>>
    /\ dev = "ok"
    /\ sent = <<>>
    /\ validated = <<>>
    /\ delivered = <<>>
    /\ lastStep = "none"
    /\ pops = <<>>
    /\ scen \in GarbageScenarios
    /\ rx = scen.stream
    /\ phase = "rx"

SpecRxFair ==
    /\ GarbageInit
    /\ [][RxNext]_vars
    /\ WF_vars(Start)
    /\ WF_vars(ReadThread)

\* position k of the stream looks like a frame start whose candidate either
\* reaches beyond the last byte of the stream or passes the CRC check
Blocks(stream, k) ==
    /\ stream[k] = 170
    /\ stream[k + 1] >= 3
    /\ \/ k + stream[k + 1] > Len(stream)
       \/ LET f == SubSeq(stream, k, k + stream[k + 1])
          IN  f[Len(f) - 1] + 256 * f[Len(f)] = ModbusCrc(SubSeq(f, 2, Len(f) - 2))

\* some position of the garbage blocks the scan
Blocked == \E k \in 1..Len(scen.g) : Blocks(scen.stream, k)

\* the payload was pushed to the inbound queue
Validated(p) == \E i \in 1..Len(validated) : validated[i] = p

\* C31 (as claimed): once every byte of the stream has been received, the
\* valid frame that ends it is eventually pushed to the inbound queue,
\* whatever garbage or corrupted bytes precede it.
C31_EventuallyDelivered == (rx = <<>>) ~> Validated(scen.q)

\* C31 (amended): the same, provided no position before the frame holds 0xAA
\* followed by a byte >= 3 whose candidate reaches beyond the bytes received
\* or passes the CRC check.
C31_DeliveredUnlessBlocked ==
    (rx = <<>> /\ ~Blocked)
        ~> (validated = <<scen.q>> /\ CBSize(input_buffer) = 0)

C31_Witness ==
    /\ scen.g = <<170, 4, 16>>
    /\ ~Blocked
    /\ rx = <<>>
    /\ rpc = "test"
    /\ lastStep = "exit"
    /\ pops = <<1, 1, 1, 5>>
    /\ input_queue = <<scen.q>>
    /\ CBSize(input_buffer) = 0

(***************************************************************************)
(* Independence of the read chunks (under SpecRx).                         *)
(***************************************************************************)
\* frame extraction over a whole byte sequence s: the payloads delivered
\* and the bytes left over
RECURSIVE Extract(_)
Extract(s) ==
    IF Len(s) < 2 THEN [out |-> <<>>, rest |-> s]
    ELSE IF s[1] # 170 \/ s[2] < 3 THEN Extract(Tail(s))
    ELSE IF Len(s) < 1 + s[2] THEN [out |-> <<>>, rest |-> s]
    ELSE LET n == 1 + s[2]
             crc == ModbusCrc(SubSeq(s, 2, n - 2))
         IN  IF s[n - 1] + 256 * s[n] = crc
             THEN LET r == Extract(SubSeq(s, n + 1, Len(s)))
                  IN  [out |-> <<SubSeq(s, 3, n - 2)>> \o r.out, rest |-> r.rest]
             ELSE Extract(Tail(s))

\* the bytes of the stream read so far
Received == SubSeq(scen.stream, 1, Len(scen.stream) - Len(rx))

\* C32: the payloads delivered and the bytes left in the ring buffer do not
\* depend on how the stream is split into read chunks: whenever no
\* extraction pass is under way they are those of extracting the bytes
\* received so far as one sequence, so any two chunkings of the same bytes
\* end with the same payload sequence and the same residue.
C32_ChunkIndependent ==
    (rpc # "process")
        => /\ validated = Extract(Received).out
           /\ CBContents(input_buffer) = Extract(Received).rest

\* a read chunk ended inside the second of two frames
C32_Witness ==
    /\ scen.kind = "two"
    /\ Len(scen.p) = 2
    /\ rpc = "test"
    /\ lastStep = "partial"
    /\ validated = <<scen.p>>
    /\ pops = <<Len(WireFrame(scen.p))>>
    /\ Len(rx) = 2
    /\ CBContents(input_buffer) = SubSeq(WireFrame(scen.q), 1, 3)

(***************************************************************************)
(* SpecFill: the device delivers a run of maximum-length frames in large   *)
(* reads, so that the ring buffer gets as full as the read loop can make   *)
(* it: a partial frame of 255 bytes left by one pass and a full read       *)
(* buffer pushed on top of it.                                             *)
(***************************************************************************)
\* the longest frame: 252 payload bytes, 256 bytes on the wire
MaxFrameLen == 1 + MaxLenField

\* enough frames to fill one read buffer after a partial frame
FillFrames == ReadBufSize \div MaxFrameLen + 1

RECURSIVE FillStreamOf(_)
FillStreamOf(k) ==
    IF k = 0 THEN <<>>
    ELSE FillStreamOf(k - 1) \o WireFrame(Pattern(MaxLenField - LenOverhead, k))

FillStream == FillStreamOf(FillFrames)

\* n = ::read(fd_, tmp, sizeof(tmp)) returning n > 0 bytes, any number up to
\* what the device holds and tmp takes; input_buffer_.Push(tmp, n)
R_ReadChunk(n) ==
    /\ rpc = "read"
    /\ dev = "ok"
    /\ n \in 1..Min(Len(rx), ReadBufSize)
    /\ input_buffer' = CBPush(input_buffer, SubSeq(rx, 1, n), n)
    /\ rx' = SubSeq(rx, n + 1, Len(rx))
    /\ rpc' = "process"
    /\ UNCHANGED <<running, wpc, spc, input_queue, validated, delivered,
                   lastStep, pops, txVars, envVars>>

\* the read sizes of the fill runs: a frame less one byte, a full read
\* buffer, or what is left of the stream when it is shorter
ChunkSizes == {MaxLenField, ReadBufSize}

FillInit ==
    /\ StartInit
    /\ CtorDone
    /\ running = FALSE
    /\ rpc = "none"
    /\ wpc = "none"
    /\ spc = "idle"
    /\ input_buffer = NewCircularBuffer(InputBufferSize)
    /\ input_queue = <<>>
    /\ output_queue = <<>>
    /\ wframe = <<>>
    /\ written = 0
    /\ tx = <<>>
    /\ dev = "ok"
    /\ sent = <<>>
    /\ validated = <<>>
    /\ delivered = <<>>
    /\ lastStep = "none"
    /\ pops = <<>>
    /\ scen = [kind |-> "fill", stream |-> FillStream]
    /\ rx = scen.stream
    /\ phase = "rx"

FillNext ==
    \/ Start
    \/ R_Test
    \/ \E c \in ChunkSizes : R_ReadChunk(Min(c, Len(rx)))
    \/ R_ReadNone
    \/ R_Process
    \/ R_Sleep

SpecFill == FillInit /\ [][FillNext]_vars

\* C33: the ring buffer of the transport never overflows.  After every
\* extraction pass fewer than 256 bytes remain buffered; the occupancy never
\* reaches the capacity; and every read is appended whole, no buffered byte
\* being overwritten.
C33_NeverOverflows ==
    /\ (rpc # "process") => CBSize(input_buffer) < 256
    /\ CBSize(input_buffer) < 256 + ReadBufSize
    /\ CBSize(input_buffer) < InputBufferSize
    /\ CBSize(input_buffer) < input_buffer.size_
    /\ [][(rpc = "read" /\ rpc' = "process")
            => /\ CBSize(input_buffer') <= input_buffer.size_
               /\ CBContents(input_buffer')
                    = CBContents(input_buffer)
                        \o SubSeq(rx, 1, Len(rx) - Len(rx'))]_vars

\* a full read buffer was pushed on top of a partial frame of 255 bytes
C33_Witness ==
    /\ scen.kind = "fill"
    /\ rpc = "process"
    /\ validated = <<>>
    /\ CBSize(input_buffer) = 255 + ReadBufSize
    /\ CBContents(input_buffer) = SubSeq(FillStream, 1, 255 + ReadBufSize)
    /\ Len(rx) = 1

(***************************************************************************)
(* Termination of the extraction pass (under SpecRxFair).                  *)
(***************************************************************************)
\* C34: every frame-extraction pass terminates: each loop iteration either
\* removes at least one byte and goes round again or stops without touching
\* the buffer, and a pass under way is eventually over; on return either
\* fewer than 2 bytes are buffered, or the oldest byte is 0xAA, the length
\* byte is >= 3 and fewer than 1 + length bytes are buffered.
C34_PassTerminates ==
    /\ [][R_Process
            => \/ /\ CBSize(input_buffer') < CBSize(input_buffer)
                  /\ rpc' = "process"
               \/ /\ input_buffer' = input_buffer
                  /\ rpc' = "test"
                  /\ \/ CBSize(input_buffer) < 2
                     \/ PartialFrame(input_buffer)]_vars
    /\ (rpc = "process") ~> (rpc = "test")

\* a pass dropped a garbage byte and returned on a candidate that announces
\* more bytes than were received
C34_Witness ==
    /\ scen.g = <<0, 170, 170>>
    /\ rx = <<>>
    /\ rpc = "test"
    /\ lastStep = "partial"
    /\ pops = <<1>>
    /\ PartialFrame(input_buffer)
    /\ CBSize(input_buffer) = 7

(***************************************************************************)
(* SpecPipeline: a caller issues get_encoder requests, the ECU answers     *)
(* them in the order they were sent, the poll timer decodes the answers.   *)
(***************************************************************************)
MaxPipeline == 2

\* the encoder count the ECU reports for the i-th request
AnswerVal(i) == 41 + i

PipelineScenarios ==
    {[kind |-> "pipeline", reqs |-> r] : r \in [1..MaxPipeline -> 0..3]}

PipelineInit ==
    /\ TransportInit
    /\ scen \in PipelineScenarios
    /\ phase = "idle"

\* ECUConnector::GetEncoder for the next motor id of the scenario
Pipe_GetEncoder ==
    /\ phase = "idle"
    /\ spc = "idle"
    /\ Len(sent) < Len(scen.reqs)
    /\ ConnBecomes(GetEncoder(Conn, ConnIsConnected, scen.reqs[Len(sent) + 1]))
    /\ UNCHANGED <<threadVars, rxVars, wframe, written, tx, dev, scen, phase,
                   startVars, queueVars, ctorVars, panel>>

\* the ECU answers the oldest request not yet answered: the frame of its
\* response is read from the port and pushed into the ring buffer
Pipe_Answer ==
    /\ phase = "idle"
    /\ Len(validated) < Len(sent)
    /\ LET frame == WireFrame(<<4>> \o BigEndian32(AnswerVal(Len(validated) + 1)))
       IN  input_buffer' = CBPush(input_buffer, frame, Len(frame))
    /\ phase' = "process"
    /\ UNCHANGED <<threadVars, input_queue, rx, validated, delivered, lastStep,
                   pops, txVars, dev, scen, startVars, queueVars, ctorVars,
                   connVars, panelVars>>

PipelineNext ==
    \/ Pipe_GetEncoder
    \/ Pipe_Answer
    \/ Dec_Process
    \/ Dec_Poll

SpecPipeline == PipelineInit /\ [][PipelineNext]_vars

\* the EncoderValueUpdated signals emitted so far
EncoderEvents == SelectSeq(events, IsEncoderEvent)

\* C35: when the ECU answers get_encoder requests in the order they were
\* sent, the i-th EncoderValueUpdated signal carries the motor id of the
\* i-th request and the value that answers it, and every response polled
\* has produced one signal, however many requests were issued before their
\* responses arrived.
C35_AnswersMatchRequests ==
    /\ Len(EncoderEvents) = Len(delivered)
    /\ \A i \in 1..Len(EncoderEvents) :
          /\ EncoderEvents[i].motor = scen.reqs[i]
          /\ FloatIs(EncoderEvents[i].value, AnswerVal(i))

(***************************************************************************)
(* SpecReconnect: the GUI thread calls ECUConnector::Connect and           *)
(* Disconnect in any order, whatever IsConnected() says.  spc is the       *)
(* position inside the call under way ("idle" between calls) and spawned   *)
(* counts the read and write threads alive in all SerialTransport objects. *)
(***************************************************************************)
MaxReconnects == 3

ConnectionChanges == SelectSeq(events, IsConnectionChanged)

ReconnectInit ==
    /\ NoTransport
    /\ scen = [kind |-> "reconnect"]
    /\ phase = "reconnect"

\* Connect, std::make_unique<SerialTransport> returning: the new transport
\* exists beside the one transport_ still owns
Rec_Construct ==
    /\ spc = "idle"
    /\ Len(ConnectionChanges) < MaxReconnects
    /\ spc' = "assign"
    /\ UNCHANGED <<running, rpc, wpc, rxVars, txVars, envVars>>

\* Connect, the constructor throwing: transport_ is not assigned and keeps
\* what it owned, the handler emits ErrorOccurred and ConnectionChanged(false)
Rec_ConstructThrows ==
    /\ spc = "idle"
    /\ Len(ConnectionChanges) < MaxReconnects
    /\ \E e \in {ErrOpen, ErrGetAttr, ErrSetAttr} :
          /\ err' = e
          /\ events' = events \o <<[sig |-> "ErrorOccurred", message |-> e],
                                  [sig |-> "ConnectionChanged", connected |-> FALSE]>>
    /\ panel' = OnConnectionChanged(panel, FALSE)
    /\ UNCHANGED <<threadVars, rxVars, txVars, dev, scen, phase, startVars,
                   queueVars, obj, fd, lastReq, currentSpeeds>>

\* Connect, transport_ = ...: the pointer takes the new transport and the
\* one owned before, if any, is destroyed; its destructor calls Stop(), which
\* clears its running_ and goes on to wait for its read thread
Rec_Assign ==
    /\ spc = "assign"
    /\ IF obj = "alive"
       THEN /\ running' = FALSE
            /\ spc' = "cjoinR"
       ELSE /\ spc' = "fresh"
            /\ UNCHANGED running
    /\ UNCHANGED <<rpc, wpc, rxVars, txVars, envVars>>

\* Stop(): read_thread_.join() returns once the read thread has left its loop
Rec_JoinR ==
    /\ spc \in {"cjoinR", "djoinR"}
    /\ rpc \in {"none", "exited"}
    /\ rpc' = "none"
    /\ spawned' = [spawned EXCEPT !.read = 0]
    /\ spc' = IF spc = "cjoinR" THEN "cjoinW" ELSE "djoinW"
    /\ UNCHANGED <<running, wpc, rxVars, txVars, dev, scen, phase, cpc,
                   aborted, queueVars, ctorVars, connVars, panelVars>>

\* Stop(): write_thread_.join() returns once the write thread has left its
\* loop
Rec_JoinW ==
    /\ spc \in {"cjoinW", "djoinW"}
    /\ wpc \in {"none", "exited"}
    /\ wpc' = "none"
    /\ spawned' = [spawned EXCEPT !.write = 0]
    /\ spc' = IF spc = "cjoinW" THEN "fresh" ELSE "reset"
    /\ UNCHANGED <<running, rpc, rxVars, txVars, dev, scen, phase, cpc,
                   aborted, queueVars, ctorVars, connVars, panelVars>>

\* Connect, the assignment done: transport_ owns the transport just built,
\* with its own empty buffer and queues and no thread
Rec_Fresh ==
    /\ spc = "fresh"
    /\ obj' = "alive"
    /\ fd' = "configured"
    /\ err' = ""
    /\ running' = FALSE
    /\ input_buffer' = NewCircularBuffer(InputBufferSize)
    /\ input_queue' = <<>>
    /\ output_queue' = <<>>
    /\ spc' = "start"
    /\ UNCHANGED <<rpc, wpc, rx, validated, delivered, lastStep, pops, wframe,
                   written, tx, sent, dev, scen, phase, startVars, queueVars,
                   connVars, panelVars>>

\* Connect, transport_->Start() and emit ConnectionChanged(true)
Rec_Start ==
    /\ spc = "start"
    /\ running' = TRUE
    /\ rpc' = "test"
    /\ wpc' = "test"
    /\ spawned' = [read |-> spawned.read + 1, write |-> spawned.write + 1]
    /\ events' = Append(events, [sig |-> "ConnectionChanged", connected |-> TRUE])
    /\ panel' = OnConnectionChanged(panel, TRUE)
    /\ spc' = "idle"
    /\ UNCHANGED <<rxVars, txVars, dev, scen, phase, cpc, aborted, queueVars,
                   ctorVars, lastReq, currentSpeeds>>

\* Disconnect, whatever transport_ holds, up to the first join
Rec_Disconnect ==
    /\ spc = "idle"
    /\ Len(ConnectionChanges) < MaxReconnects
    /\ IF obj = "alive"
       THEN /\ running' = FALSE
            /\ spc' = "djoinR"
            /\ UNCHANGED <<events, panel>>
       ELSE /\ events' = Append(events, [sig |-> "ConnectionChanged",
                                         connected |-> FALSE])
            /\ panel' = OnConnectionChanged(panel, FALSE)
            /\ UNCHANGED <<running, spc>>
    /\ UNCHANGED <<rpc, wpc, rxVars, txVars, dev, scen, phase, startVars,
                   queueVars, ctorVars, lastReq, currentSpeeds>>

ReconnectNext ==
    \/ Rec_Construct
    \/ Rec_ConstructThrows
    \/ Rec_Assign
    \/ Rec_JoinR
    \/ Rec_JoinW
    \/ Rec_Fresh
    \/ Rec_Start
    \/ Rec_Disconnect
    \/ Disc_Reset
    \/ (~running /\ R_Test)
    \/ (~running /\ W_Test)
    \/ OnTimerTimeout
    \/ Timer_GetAllEncoders
    \/ Timer_GetImu

SpecReconnect == ReconnectInit /\ [][ReconnectNext]_vars

\* C36: between calls of Connect and Disconnect, made in any order and with
\* Connect failing or not, the last ConnectionChanged signal emitted carries
\* the value of IsConnected(), and no more than one read thread and one write
\* thread are alive.
C36_SignalMatchesIsConnected ==
    /\ (spc = "idle" /\ Len(ConnectionChanges) > 0) =>
          ConnectionChanges[Len(ConnectionChanges)].connected = ConnIsConnected
    /\ spawned.read <= 1
    /\ spawned.write <= 1

(***************************************************************************)
(* SpecTab: the user clicks the connect button and switches between the    *)
(* dashboard's tabs in any order while the panel's timer fires.  phase is  *)
(* the current tab of the dashboard's QTabWidget.                          *)
(***************************************************************************)
\* the tabs DashboardPanel adds, by index 0, 1, 2
TabNames == <<"pid", "tester", "imu">>

TabInit ==
    /\ NoTransport
    /\ scen = [kind |-> "tab"]
    /\ phase = TabNames[1]

\* QTabWidget::currentChanged(index) reaching DashboardPanel::OnTabChanged,
\* which emits ProtocolTesterTabActivated(index == 1), handled by
\* MainWindow::OnProtocolTesterTabActivated
Tab_Changed(index) ==
    /\ spc = "idle"
    /\ phase # TabNames[index + 1]
    /\ index = 1 => Len(sent) < MaxCmdFrames
    /\ phase' = TabNames[index + 1]
    /\ panel' = SetPeriodicUpdatesEnabled(panel, ConnIsConnected, index # 1)
    /\ ConnBecomes(IF index = 1 /\ ConnIsConnected
                   THEN SetAllMotorsSpeed(Conn, ConnIsConnected, <<0, 0, 0, 0>>)
                   ELSE Conn)
    /\ UNCHANGED <<threadVars, rxVars, wframe, written, tx, dev, scen,
                   startVars, queueVars, ctorVars>>

\* ControlPanel::OnConnectClicked: Disconnect when connected, Connect if not
TabNext ==
    \/ Connect_Ok
    \/ Connect_Fail
    \/ (ConnIsConnected /\ Disconnect)
    \/ Disc_JoinR
    \/ Disc_JoinW
    \/ Disc_Reset
    \/ (~running /\ R_Test)
    \/ (~running /\ W_Test)
    \/ \E index \in 0..2 : Tab_Changed(index)
    \/ OnTimerTimeout
    \/ Timer_GetAllEncoders
    \/ Timer_GetImu

SpecTab == TabInit /\ [][TabNext]_vars

\* C37: while the Protocol Tester tab is the current tab the panel's update
\* timer is stopped, and no frame is sent while that tab stays current, in
\* whatever order tab changes, connects and disconnects happen.
C37_TimerOffInTester ==
    /\ [](phase = "tester" => ~panel.timer)
    /\ [][(phase = "tester" /\ phase' = "tester") => sent' = sent]_vars

(***************************************************************************)
(* The write thread and Stop().                                            *)
(***************************************************************************)
\* the frames the write thread has taken from the output queue so far
Dequeued == SubSeq(sent, 1, Len(sent) - Len(output_queue))

\* C38: the write thread leaves its loop only at the test of running_, with
\* the frame it last dequeued written in full, so once it has exited (or was
\* joined) the bytes written to the device are exactly the frames dequeued,
\* each of them whole.
C38_ExitsBetweenFrames ==
    /\ [](wpc \in {"exited", "none"} => tx = Flatten(Dequeued))
    /\ [][(wpc # "exited" /\ wpc' = "exited") =>
            (wpc = "test" /\ ~running /\ written = Len(wframe))]_vars

C38_Witness ==
    /\ wpc = "exited"
    /\ Len(sent) = 1
    /\ tx = sent[1]
    /\ spc = "joinR"
    /\ rpc # "exited"

(***************************************************************************)
(* SpecCrc: a frame built by Send has one payload byte replaced on the     *)
(* wire and is then handed to ProcessBuffer.                               *)
(***************************************************************************)
MaxCrcLen == 3

CrcSeeds == {0, 85, 255}

CrcScenarios ==
    {[kind |-> "crc", p |-> Pattern(n, s), i |-> i, v |-> v] :
        n \in 1..MaxCrcLen, s \in CrcSeeds, i \in 1..MaxCrcLen, v \in 0..255}

CrcRunInit ==
    /\ TransportInit
    /\ scen \in CrcScenarios
    /\ scen.i <= Len(scen.p)
    /\ scen.v # scen.p[scen.i]
    /\ phase = "call"

\* the frame as received: payload byte scen.i of the frame Send built reads
\* scen.v
Damaged == Corrupt(SendFrame(scen.p), scen.i, scen.v)

\* ReadLoop pushes the received bytes into the ring buffer
Crc_Feed ==
    /\ phase = "call"
    /\ input_buffer' = CBPush(input_buffer, Damaged, Len(Damaged))
    /\ phase' = "process"
    /\ UNCHANGED <<threadVars, input_queue, rx, validated, delivered, lastStep,
                   pops, txVars, dev, scen, startVars, queueVars, ctorVars,
                   connVars, panelVars>>

CrcNext ==
    \/ Crc_Feed
    \/ CodecProcess

SpecCrc == CrcRunInit /\ [][CrcNext]_vars

\* C39: when one payload byte of a frame built by Send is replaced by any
\* other value, the CRC16 computed over the length byte and the payload
\* differs from the CRC the frame carries, and ProcessBuffer rejects the
\* candidate at the CRC comparison: its first iteration discards one byte and
\* the payload is never accepted.
C39_SingleByteDetected ==
    /\ (phase = "process" /\ pops = <<>>) =>
          /\ CalculatedCrc(Damaged, Damaged[2]) # ReceivedCrc(Damaged, Len(Damaged))
          /\ CrcMismatch(input_buffer)
    /\ pops # <<>> => pops[1] = CrcFailDrop(Len(Damaged))
    /\ Len(pops) = 1 => lastStep = "crcfail"
    /\ \A k \in 1..Len(validated) : validated[k] # scen.p

C39_Witness ==
    /\ Len(scen.p) = MaxCrcLen
    /\ scen.i = 2
    /\ scen.v = (scen.p[2] + 128) % 256
    /\ lastStep = "crcfail"
    /\ pops = <<1>>

====
